---- MODULE Spec2Model ----
(***************************************************************************)
(* Fresh-wallet cluster detection (dashboard variant, src/server.js 1-1108) *)
(* as a state machine: the scan loop of startBot, processTrade taken one   *)
(* participant at a time, isWalletFresh with its cache, the bet ledger and *)
(* its sweep, getMarketInfo / shouldFilterMarket and checkAndAlert.        *)
(*                                                                         *)
(* Text that the code inspects character by character (market questions)   *)
(* is a tuple of one-character strings; other strings are TLA+ strings.    *)
(***************************************************************************)
EXTENDS Integers, Sequences, FiniteSets, TLC

VARIABLES
  inflight,           \* calls of checkAndAlert begun and not awaited, still running
  chain,              \* the OrderFilled events in the blocks the scan covers
  CONFIG,             \* the CONFIG object (threshold, window, poll interval, backfill)
  now,                \* Date.now()
  betsByOutcome,      \* Map outcomeId -> array of bets
  walletCache,        \* Map lowercased address -> {isFresh, checkedAt}
  alertedOutcomes,    \* Set of outcome ids
  marketCache,        \* Map tokenId -> marketInfo
  stats,              \* the stats object
  alerts,             \* array of alert records, newest first
  pc,                 \* where startBot is
  lastProcessedBlock, \* the scan cursor (local of startBot)
  latestBlock,        \* head read at the start of the cycle
  fromBlock,          \* start of the chunk being scanned
  pending,            \* events of the current chunk not yet fully processed
  cur,                \* the trade being processed: event, timestamp, participant
  emitted,            \* history: newAlert / alertUpdate events sent to the sink
  hist,               \* history: calls of isWalletFresh, insertions, suppressions,
                      \* the block ranges queried so far in the running cycle,
                      \* and the calls of getMarketInfo made by checkAndAlert
  op                  \* history: what the last step did

vars == <<inflight, chain, CONFIG, now, betsByOutcome, walletCache, alertedOutcomes, marketCache,
          stats, alerts, pc, lastProcessedBlock, latestBlock, fromBlock, pending,
          cur, emitted, hist, op>>

----------------------------------------------------------------------------
(* Bounds of the model *)

\* trades processed in one run
MaxTrades == 2
\* trades processed in one cluster run
MaxClusterTrades == 4
\* windows that go by in one cluster run
MaxClusterDays == 1
\* events one log query returns at most
MaxChunkEvents == 2
\* how far the chain head moves past the head seen at startup
MaxHeadGrowth == 1
\* index of the last instant of ClockPoints the clock reaches
MaxClock == 5

(* Program constants *)

\* isWalletFresh: 60 * 60 * 1000
WalletCacheTtlMs == 60 * 60 * 1000
\* startBot: const CHUNK_SIZE = 10
CHUNK_SIZE == 10
\* checkAndAlert: if (alerts.length > 50) alerts.pop().  Scaled down from 50 so
\* that an eviction happens with the three outcomes the model has.
MaxAlerts == 2
\* processTrade: Number(amount) / 1e6
UsdcScale == 1000000
\* isWalletFresh: txCount <= 2
FreshMaxTxCount == 2

\* The instants Date.now() takes, in ms from the start of the run: 0, 23h59m,
\* 24h, 24h+1s, 25h, 48h.
ClockPoints == <<0, 86340000, 86400000, 86401000, 90000000, 172800000>>

Min(a, b) == IF a <= b THEN a ELSE b

----------------------------------------------------------------------------
(* Values *)

\* null / undefined where an object is expected
Null == [null |-> TRUE]
\* undefined where a string is expected (falsy, like the empty string)
NoString == ""
\* null / undefined where a number or an array is expected; a present value v is <<v>>
NoValue == <<>>

\* ethers.ZeroAddress
ZeroAddress == "0x0000"

\* Addresses that appear as maker or taker; "0xA1" is "0xa1" in another case.
Addresses == {ZeroAddress, "0xa1", "0xA1", "0xb2", "0xc3"}

\* String.prototype.toLowerCase on addresses
toLowerCase(s) ==
  CASE s = "0xA1" -> "0xa1"
    [] s = "0xB2" -> "0xb2"
    [] s = "0xC3" -> "0xc3"
    [] OTHER -> s

\* uint256 asset ids of the trades
AssetIds == {1, 2, 9}

\* BigInt.prototype.toString
toString(n) ==
  CASE n = 1 -> "1"
    [] n = 2 -> "2"
    [] n = 9 -> "9"
    [] OTHER -> "0"

\* amounts filled, 6-decimal fixed point (100 and 200 USDC)
RawAmounts == {100000000, 200000000}

\* Number(amount) / 1e6, exact on the whole-USDC amounts used
toUSDC(amount) == amount \div UsdcScale

----------------------------------------------------------------------------
(* Regular expressions, as far as shouldFilterMarket uses them *)

Digits == {"0", "1", "2", "3", "4", "5", "6", "7", "8", "9"}
\* \s, on the characters questions hold
WhiteSpace == {" "}

UpperLetters == <<"A","B","C","D","E","F","G","H","I","J","K","L","M","N","O","P","Q","R","S","T","U","V","W","X","Y","Z">>
LowerLetters == <<"a","b","c","d","e","f","g","h","i","j","k","l","m","n","o","p","q","r","s","t","u","v","w","x","y","z">>

\* String.prototype.toLowerCase on a question
lowerChar(c) ==
  IF \E i \in 1..26 : UpperLetters[i] = c
  THEN LowerLetters[CHOOSE i \in 1..26 : UpperLetters[i] = c]
  ELSE c
toLowerCaseText(s) == [i \in 1..Len(s) |-> lowerChar(s[i])]

Chr(S) == [t |-> "chr", set |-> S]
AnyChr == [t |-> "any"]
Cat(parts) == [t |-> "seq", parts |-> parts]
Alt(parts) == [t |-> "alt", parts |-> parts]
Star(r) == [t |-> "star", sub |-> r]
Plus(r) == [t |-> "plus", sub |-> r]
Opt(r) == [t |-> "opt", sub |-> r]
Lit(s) == Cat([i \in 1..Len(s) |-> Chr({s[i]})])

\* The positions where a match of re that starts at a position of P ends
\* (positions are 1..Len(s)+1; a match of s[p..q-1] starts at p and ends at q).
RECURSIVE MatchEnds(_, _, _)
MatchEnds(re, s, P) ==
  CASE re.t = "chr" -> {p + 1 : p \in {q \in P : q <= Len(s) /\ s[q] \in re.set}}
    [] re.t = "any" -> {p + 1 : p \in {q \in P : q <= Len(s)}}
    [] re.t = "seq" ->
         IF re.parts = <<>> THEN P
         ELSE MatchEnds(Cat(Tail(re.parts)), s, MatchEnds(Head(re.parts), s, P))
    [] re.t = "alt" -> UNION {MatchEnds(re.parts[i], s, P) : i \in 1..Len(re.parts)}
    [] re.t = "star" ->
         LET R == MatchEnds(re.sub, s, P)
         IN  IF R \subseteq P THEN P ELSE MatchEnds(re, s, P \cup R)
    [] re.t = "plus" -> MatchEnds(Star(re.sub), s, MatchEnds(re.sub, s, P))
    [] re.t = "opt" -> P \cup MatchEnds(re.sub, s, P)

\* RegExp.prototype.test, unanchored
RegexTest(re, s) == MatchEnds(re, s, 1..(Len(s) + 1)) # {}

ClockSuffix == Alt(<<Lit(<<"a","m">>), Lit(<<"p","m">>), Lit(<<"u","t","c">>),
                     Lit(<<"e","t">>), Lit(<<"p","t">>)>>)
ClockSuffixUtc == Alt(<<Lit(<<"a","m">>), Lit(<<"p","m">>), Lit(<<"u","t","c">>)>>)
\* \d+[:\d]*\s*
ClockTime == Cat(<<Plus(Chr(Digits)), Star(Chr(Digits \cup {":"})), Star(Chr(WhiteSpace))>>)
CryptoNames ==
  Alt(<<Lit(<<"b","i","t","c","o","i","n">>), Lit(<<"b","t","c">>),
        Lit(<<"e","t","h","e","r","e","u","m">>), Lit(<<"e","t","h">>),
        Lit(<<"s","o","l","a","n","a">>), Lit(<<"s","o","l">>),
        Lit(<<"d","o","g","e">>), Lit(<<"x","r","p">>),
        Lit(<<"c","r","y","p","t","o">>)>>)

\* filterPatterns of shouldFilterMarket, in the order of the source
filterPatterns == <<
  Cat(<<Plus(Chr(Digits)), Opt(Chr(WhiteSpace \cup {"-"})), Lit(<<"m","i","n">>)>>),
  Cat(<<Plus(Chr(Digits)), Opt(Chr(WhiteSpace \cup {"-"})), Lit(<<"m","i","n","u","t","e">>)>>),
  Lit(<<"1","-","m","i","n">>),
  Lit(<<"5","-","m","i","n">>),
  Lit(<<"1","5","-","m","i","n">>),
  Lit(<<"u","p"," ","o","r"," ","d","o","w","n">>),
  Lit(<<"h","i","g","h","e","r"," ","o","r"," ","l","o","w","e","r">>),
  Lit(<<"a","b","o","v","e"," ","o","r"," ","b","e","l","o","w">>),
  Cat(<<Lit(<<"p","r","i","c","e">>), Star(AnyChr), ClockTime, ClockSuffix>>),
  Cat(<<Lit(<<"a","t"," ">>), ClockTime, ClockSuffix>>),
  Cat(<<CryptoNames, Star(AnyChr), ClockTime, ClockSuffixUtc>>),
  Cat(<<CryptoNames, Star(AnyChr),
        Alt(<<Lit(<<"u","p">>), Lit(<<"d","o","w","n">>),
              Lit(<<"h","i","g","h","e","r">>), Lit(<<"l","o","w","e","r">>)>>)>>)
>>

\* "Will it rain tomorrow?"
RainQuestion == <<"W","i","l","l"," ","i","t"," ","r","a","i","n"," ","t","o","m","o","r","r","o","w","?">>
\* "Bitcoin up or down in next 5 minutes?"
BitcoinQuestion == <<"B","i","t","c","o","i","n"," ","u","p"," ","o","r"," ","d","o","w","n"," ","i","n"," ","n","e","x","t"," ","5"," ","m","i","n","u","t","e","s","?">>
\* 'Unknown Market'
UnknownMarket == <<"U","n","k","n","o","w","n"," ","M","a","r","k","e","t">>

\* Variant of shouldFilterMarket: a market without metadata is filtered out.
shouldFilterUnresolved(marketInfo) ==
  IF marketInfo = Null \/ marketInfo.question = <<>>
  THEN TRUE
  ELSE LET question == toLowerCaseText(marketInfo.question)
       IN  \E i \in 1..Len(filterPatterns) : RegexTest(filterPatterns[i], question)

\* Variant of shouldFilterMarket: no pattern is ever applied.
shouldFilterNothing(marketInfo) == FALSE

\* shouldFilterMarket(marketInfo)
shouldFilterMarket(marketInfo) ==
  IF marketInfo = Null \/ marketInfo.question = <<>>
  THEN FALSE
  ELSE LET question == toLowerCaseText(marketInfo.question)
       IN  \E i \in 1..Len(filterPatterns) : RegexTest(filterPatterns[i], question)

----------------------------------------------------------------------------
(* Maps and arrays *)

\* new Map()
EmptyMap == [k \in {} |-> Null]
\* Map.prototype.set
MapSet(m, k, v) == [x \in (DOMAIN m) \cup {k} |-> IF x = k THEN v ELSE m[x]]
\* Map.prototype.get, undefined as Null
MapGet(m, k) == IF k \in DOMAIN m THEN m[k] ELSE Null

\* Array.prototype.indexOf, 1-based, 0 when absent (-1 in the source)
indexOf(arr, v) ==
  IF \E i \in 1..Len(arr) : arr[i] = v
  THEN CHOOSE i \in 1..Len(arr) : arr[i] = v /\ \A j \in 1..(i - 1) : arr[j] # v
  ELSE 0

\* freshBets.reduce((sum, b) => sum + (b.amount || 0), 0)
RECURSIVE sumAmounts(_)
sumAmounts(bets) ==
  IF bets = <<>> THEN 0 ELSE Head(bets).amount + sumAmounts(Tail(bets))

----------------------------------------------------------------------------
(* isWalletFresh *)

\* What provider.getTransactionCount answers: a count, or it throws.
RpcResults == {[ok |-> TRUE, txCount |-> 2], [ok |-> TRUE, txCount |-> 3],
               [ok |-> FALSE, txCount |-> 0]}

\* Variant of isWalletFresh: the cache is written but never read.
isWalletFreshUncached(cache, walletAddress, t, rpc) ==
  LET key == toLowerCase(walletAddress)
  IN  IF rpc.ok
      THEN LET isFresh == rpc.txCount <= FreshMaxTxCount
           IN  [result |-> isFresh,
                cache |-> MapSet(cache, key, [isFresh |-> isFresh, checkedAt |-> t]),
                queried |-> TRUE, threw |-> FALSE]
      ELSE [result |-> FALSE, cache |-> cache, queried |-> TRUE, threw |-> FALSE]

\* Variant of isWalletFresh: a cached record is trusted whatever its age.
isWalletFreshNoTtl(cache, walletAddress, t, rpc) ==
  LET key == toLowerCase(walletAddress)
      cached == MapGet(cache, key)
  IN  IF cached # Null
      THEN [result |-> cached.isFresh, cache |-> cache, queried |-> FALSE,
            threw |-> FALSE]
      ELSE IF rpc.ok
           THEN LET isFresh == rpc.txCount <= FreshMaxTxCount
                IN  [result |-> isFresh,
                     cache |-> MapSet(cache, key, [isFresh |-> isFresh, checkedAt |-> t]),
                     queried |-> TRUE, threw |-> FALSE]
           ELSE [result |-> FALSE, cache |-> cache, queried |-> TRUE, threw |-> FALSE]

\* Variant of isWalletFresh: no try/catch around getTransactionCount.
isWalletFreshRethrows(cache, walletAddress, t, rpc) ==
  LET key == toLowerCase(walletAddress)
      cached == MapGet(cache, key)
  IN  IF cached # Null /\ t - cached.checkedAt < WalletCacheTtlMs
      THEN [result |-> cached.isFresh, cache |-> cache, queried |-> FALSE,
            threw |-> FALSE]
      ELSE IF rpc.ok
           THEN LET isFresh == rpc.txCount <= FreshMaxTxCount
                IN  [result |-> isFresh,
                     cache |-> MapSet(cache, key, [isFresh |-> isFresh, checkedAt |-> t]),
                     queried |-> TRUE, threw |-> FALSE]
           ELSE [result |-> FALSE, cache |-> cache, queried |-> TRUE, threw |-> TRUE]

\* isWalletFresh(provider, walletAddress) at time t; rpc is what the provider
\* answers if it is asked.  queried: getTransactionCount was called; threw:
\* the call rejected to its caller.
isWalletFresh(cache, walletAddress, t, rpc) ==
  LET key == toLowerCase(walletAddress)
      cached == MapGet(cache, key)
  IN  IF cached # Null /\ t - cached.checkedAt < WalletCacheTtlMs
      THEN [result |-> cached.isFresh, cache |-> cache, queried |-> FALSE,
            threw |-> FALSE]
      ELSE IF rpc.ok
           THEN LET isFresh == rpc.txCount <= FreshMaxTxCount
                IN  [result |-> isFresh,
                     cache |-> MapSet(cache, key, [isFresh |-> isFresh, checkedAt |-> t]),
                     queried |-> TRUE, threw |-> FALSE]
           ELSE [result |-> FALSE, cache |-> cache, queried |-> TRUE, threw |-> FALSE]

----------------------------------------------------------------------------
(* cleanupOldBets *)

\* What is left of a bucket when expired entries are spliced out of it inside a
\* forward loop over its positions: the entry after each one removed is skipped.
RECURSIVE spliceWhileIterating(_, _)
spliceWhileIterating(bucket, cutoff) ==
  IF bucket = <<>> THEN <<>>
  ELSE IF Head(bucket).timestamp > cutoff
       THEN <<Head(bucket)>> \o spliceWhileIterating(Tail(bucket), cutoff)
       ELSE IF Len(bucket) = 1 THEN <<>>
            ELSE <<bucket[2]>> \o spliceWhileIterating(Tail(Tail(bucket)), cutoff)

\* Variant of cleanupOldBets: expired entries are removed in place while the
\* bucket is being walked.
cleanupOldBetsInPlace(bets, t, timeWindowMs) ==
  LET cutoff == t - timeWindowMs
      filteredBets(outcomeId) == spliceWhileIterating(bets[outcomeId], cutoff)
  IN  [outcomeId \in {k \in DOMAIN bets : Len(filteredBets(k)) # 0}
         |-> filteredBets(outcomeId)]

\* Variant of cleanupOldBets: an entry exactly timeWindowMs old is kept.
cleanupOldBetsInclusive(bets, t, timeWindowMs) ==
  LET cutoff == t - timeWindowMs
      filteredBets(outcomeId) ==
        SelectSeq(bets[outcomeId], LAMBDA bet : bet.timestamp >= cutoff)
  IN  [outcomeId \in {k \in DOMAIN bets : Len(filteredBets(k)) # 0}
         |-> filteredBets(outcomeId)]

\* cleanupOldBets() at time t
cleanupOldBets(bets, t, timeWindowMs) ==
  LET cutoff == t - timeWindowMs
      filteredBets(outcomeId) ==
        SelectSeq(bets[outcomeId], LAMBDA bet : bet.timestamp > cutoff)
  IN  [outcomeId \in {k \in DOMAIN bets : Len(filteredBets(k)) # 0}
         |-> filteredBets(outcomeId)]

----------------------------------------------------------------------------
(* getMarketInfo *)

\* parseFloat on the price strings of the endpoint, in hundredths
parseFloat(s) ==
  CASE s = "0.65" -> 65
    [] s = "0.35" -> 35
    [] s = "0.50" -> 50
    [] OTHER -> 0

\* The rows gamma-api answers for a token id when it has the market.
GammaRows(tokenId) ==
  IF tokenId \in {"1", "9"}
  THEN << [question |-> RainQuestion, slug |-> "rain-tomorrow", image |-> "rain.png",
           conditionId |-> "0xc1", clobTokenIds |-> <<"1", "9">>,
           outcomes |-> <<"Yes", "No">>, outcomePrices |-> <<"0.65", "0.35">>] >>
  ELSE << [question |-> BitcoinQuestion, slug |-> "btc-up-or-down-5m", image |-> "btc.png",
           conditionId |-> "0xc2", clobTokenIds |-> <<"8", "2">>,
           outcomes |-> <<"Up", "Down">>, outcomePrices |-> <<"0.50", "0.50">>] >>

\* What fetch gives: it throws, answers not ok, answers no rows, or the rows.
GammaResponses(tokenId) ==
  { [threw |-> TRUE, ok |-> FALSE, data |-> <<>>],
    [threw |-> FALSE, ok |-> FALSE, data |-> <<>>],
    [threw |-> FALSE, ok |-> TRUE, data |-> <<>>],
    [threw |-> FALSE, ok |-> TRUE, data |-> GammaRows(tokenId)] }

\* Variant of getMarketInfo: the cache is written but never read.
getMarketInfoUncached(cache, tokenId, response) ==
  IF ~response.threw /\ response.ok /\ Len(response.data) > 0
  THEN LET market == response.data[1]
           tokenIndex == indexOf(market.clobTokenIds, tokenId)
           outcome == IF tokenIndex # 0 /\ tokenIndex <= Len(market.outcomes)
                      THEN market.outcomes[tokenIndex] ELSE "Unknown"
           price == IF tokenIndex # 0 /\ tokenIndex <= Len(market.outcomePrices)
                    THEN <<parseFloat(market.outcomePrices[tokenIndex])>> ELSE NoValue
           marketInfo ==
             [question |-> IF market.question = <<>> THEN UnknownMarket
                           ELSE market.question,
              outcome |-> outcome, price |-> price, slug |-> market.slug,
              image |-> market.image, conditionId |-> market.conditionId]
       IN  [info |-> marketInfo, cache |-> MapSet(cache, tokenId, marketInfo),
            fetched |-> TRUE]
  ELSE [info |-> Null, cache |-> cache, fetched |-> TRUE]

\* getMarketInfo(tokenId); response is what the endpoint does if it is asked.
getMarketInfo(cache, tokenId, response) ==
  IF tokenId \in DOMAIN cache
  THEN [info |-> cache[tokenId], cache |-> cache, fetched |-> FALSE]
  ELSE IF ~response.threw /\ response.ok /\ Len(response.data) > 0
       THEN LET market == response.data[1]
                tokenIndex == indexOf(market.clobTokenIds, tokenId)
                outcome == IF tokenIndex # 0 /\ tokenIndex <= Len(market.outcomes)
                           THEN market.outcomes[tokenIndex] ELSE "Unknown"
                price == IF tokenIndex # 0 /\ tokenIndex <= Len(market.outcomePrices)
                         THEN <<parseFloat(market.outcomePrices[tokenIndex])>> ELSE NoValue
                marketInfo ==
                  [question |-> IF market.question = <<>> THEN UnknownMarket
                                ELSE market.question,
                   outcome |-> outcome, price |-> price, slug |-> market.slug,
                   image |-> market.image, conditionId |-> market.conditionId]
            IN  [info |-> marketInfo, cache |-> MapSet(cache, tokenId, marketInfo),
                 fetched |-> TRUE]
       ELSE [info |-> Null, cache |-> cache, fetched |-> TRUE]

----------------------------------------------------------------------------
(* checkAndAlert *)

\* new Date().toISOString(): a string, not the number Date.now() gives
toISOString(t) == [iso |-> t]

\* bets.filter(bet => bet.isFresh) on betsByOutcome.get(outcomeId) || []
freshBetsOf(bets, outcomeId) ==
  SelectSeq(IF outcomeId \in DOMAIN bets THEN bets[outcomeId] ELSE <<>>,
            LAMBDA bet : bet.isFresh)

\* alerts.find(a => a.outcomeId === outcomeId), as an index, 0 when absent
findAlert(alertList, outcomeId) ==
  IF \E i \in 1..Len(alertList) : alertList[i].outcomeId = outcomeId
  THEN CHOOSE i \in 1..Len(alertList) :
         /\ alertList[i].outcomeId = outcomeId
         /\ \A j \in 1..(i - 1) : alertList[j].outcomeId # outcomeId
  ELSE 0

\* Variant of unshiftAlert: over the cap the list is shortened at its front.
unshiftAlertThenShift(alertList, alert) ==
  LET grown == <<alert>> \o alertList
  IN  IF Len(grown) > MaxAlerts THEN Tail(grown) ELSE grown

\* alerts.unshift(alert); if (alerts.length > 50) alerts.pop()
unshiftAlert(alertList, alert) ==
  LET grown == <<alert>> \o alertList
  IN  IF Len(grown) > MaxAlerts THEN SubSeq(grown, 1, Len(grown) - 1) ELSE grown

\* what io.emit('newAlert' | 'alertUpdate', alert) sends
AlertEvent(type, alert) ==
  [type |-> type, outcomeId |-> alert.outcomeId, id |-> alert.id,
   question |-> alert.question, freshWallets |-> alert.freshWallets,
   totalAmount |-> alert.totalAmount, latestBet |-> alert.latestBet]

\* Variant of addFiltered: an outcome whose market is filtered is not marked.
addFilteredNever(alerted, outcomeId) == alerted

\* alertedOutcomes.add(outcomeId) in the branch of a filtered market
addFiltered(alerted, outcomeId) == alerted \cup {outcomeId}

\* Variant of hasAlerted: the alerted set is never consulted.
hasAlertedNever(alerted, outcomeId) == FALSE

\* alertedOutcomes.has(outcomeId)
hasAlerted(alerted, outcomeId) == outcomeId \in alerted

\* Variant of updateExistingAlert: when the list holds no record of the outcome
\* a record is made up and sent.
updateOrRecreateAlert(outcomeId, S, t) ==
  LET i == findAlert(S.alerts, outcomeId)
      freshBets == freshBetsOf(S.betsByOutcome, outcomeId)
      existingAlert ==
        IF i # 0
        THEN [S.alerts[i] EXCEPT !.freshWallets = Len(freshBets),
                                 !.totalAmount = sumAmounts(freshBets),
                                 !.latestBet = toISOString(t)]
        ELSE [id |-> t, outcomeId |-> outcomeId, question |-> UnknownMarket,
              freshWallets |-> Len(freshBets), totalAmount |-> sumAmounts(freshBets),
              latestBet |-> toISOString(t)]
  IN  [S EXCEPT !.alerts = IF i # 0 THEN [S.alerts EXCEPT ![i] = existingAlert]
                           ELSE S.alerts,
                !.evaluated = TRUE, !.counted = freshBets,
                !.events = Append(S.events, AlertEvent("alertUpdate", existingAlert))]

\* Variant of updateExistingAlert: the record is sent as it is, its count and
\* amount not refreshed.
updateWithoutRecount(outcomeId, S, t) ==
  LET i == findAlert(S.alerts, outcomeId)
      freshBets == freshBetsOf(S.betsByOutcome, outcomeId)
  IN  IF i # 0
      THEN LET existingAlert == [S.alerts[i] EXCEPT !.latestBet = toISOString(t)]
           IN  [S EXCEPT !.alerts = [S.alerts EXCEPT ![i] = existingAlert],
                         !.evaluated = TRUE, !.counted = freshBets,
                         !.events = Append(S.events,
                                           AlertEvent("alertUpdate", existingAlert))]
      ELSE S

\* Variant of updateExistingAlert: the record refreshed is the one at the front
\* of the list.
updateNewestAlert(outcomeId, S, t) ==
  LET i == IF findAlert(S.alerts, outcomeId) # 0 THEN 1 ELSE 0
      freshBets == freshBetsOf(S.betsByOutcome, outcomeId)
  IN  IF i # 0
      THEN LET existingAlert ==
                 [S.alerts[i] EXCEPT !.freshWallets = Len(freshBets),
                                     !.totalAmount = sumAmounts(freshBets),
                                     !.latestBet = toISOString(t)]
           IN  [S EXCEPT !.alerts = [S.alerts EXCEPT ![i] = existingAlert],
                         !.evaluated = TRUE, !.counted = freshBets,
                         !.events = Append(S.events,
                                           AlertEvent("alertUpdate", existingAlert))]
      ELSE S

\* Variant of updateExistingAlert: the refreshed record is stamped anew.
updateRestamping(outcomeId, S, t) ==
  LET i == findAlert(S.alerts, outcomeId)
      freshBets == freshBetsOf(S.betsByOutcome, outcomeId)
  IN  IF i # 0
      THEN LET existingAlert ==
                 [S.alerts[i] EXCEPT !.freshWallets = Len(freshBets),
                                     !.totalAmount = sumAmounts(freshBets),
                                     !.latestBet = toISOString(t),
                                     !.timestamp = t]
           IN  [S EXCEPT !.alerts = [S.alerts EXCEPT ![i] = existingAlert],
                         !.evaluated = TRUE, !.counted = freshBets,
                         !.events = Append(S.events,
                                           AlertEvent("alertUpdate", existingAlert))]
      ELSE S

\* The first branch of checkAndAlert: the outcome is in alertedOutcomes.  The
\* alert record, if the list still holds it, is refreshed and sent as alertUpdate.
\* Variant of updateExistingAlert: the update also rebuilds the wallets list of
\* the record from the bets counted.
updateExistingAlertWithWallets(outcomeId, S, t) ==
  LET i == findAlert(S.alerts, outcomeId)
      freshBets == freshBetsOf(S.betsByOutcome, outcomeId)
  IN  IF i # 0
      THEN LET existingAlert ==
                 [S.alerts[i] EXCEPT !.freshWallets = Len(freshBets),
                                     !.totalAmount = sumAmounts(freshBets),
                                     !.latestBet = toISOString(t),
                                     !.wallets = [k \in 1..Len(freshBets) |->
                                                    [address |-> freshBets[k].wallet,
                                                     txHash |-> freshBets[k].txHash,
                                                     timestamp |-> freshBets[k].timestamp,
                                                     amount |-> freshBets[k].amount]]]
           IN  [S EXCEPT !.alerts = [S.alerts EXCEPT ![i] = existingAlert],
                         !.evaluated = TRUE, !.counted = freshBets,
                         !.events = Append(S.events,
                                           AlertEvent("alertUpdate", existingAlert))]
      ELSE S

\* Variant of updateExistingAlert: the update recounts the wallets and leaves
\* the total amount of the record as it was.
updateExistingAlertCountOnly(outcomeId, S, t) ==
  LET i == findAlert(S.alerts, outcomeId)
      freshBets == freshBetsOf(S.betsByOutcome, outcomeId)
  IN  IF i # 0
      THEN LET existingAlert ==
                 [S.alerts[i] EXCEPT !.freshWallets = Len(freshBets),
                                     !.latestBet = toISOString(t)]
           IN  [S EXCEPT !.alerts = [S.alerts EXCEPT ![i] = existingAlert],
                         !.evaluated = TRUE, !.counted = freshBets,
                         !.events = Append(S.events,
                                           AlertEvent("alertUpdate", existingAlert))]
      ELSE S

updateExistingAlert(outcomeId, S, t) ==
  LET i == findAlert(S.alerts, outcomeId)
      freshBets == freshBetsOf(S.betsByOutcome, outcomeId)
  IN  IF i # 0
      THEN LET existingAlert ==
                 [S.alerts[i] EXCEPT !.freshWallets = Len(freshBets),
                                     !.totalAmount = sumAmounts(freshBets),
                                     !.latestBet = toISOString(t)]
           IN  [S EXCEPT !.alerts = [S.alerts EXCEPT ![i] = existingAlert],
                         !.evaluated = TRUE, !.counted = freshBets,
                         !.events = Append(S.events,
                                           AlertEvent("alertUpdate", existingAlert))]
      ELSE S

\* checkAndAlert(outcomeId) at time t on the program state S; response is what
\* the metadata endpoint does if asked.  S.events collects what is emitted,
\* S.counted the ledger entries read for detection (S.evaluated: there was a read).
checkAndAlert(outcomeId, S, cfg, t, response) ==
  LET freshBets == freshBetsOf(S.betsByOutcome, outcomeId)
  IN
  IF hasAlerted(S.alertedOutcomes, outcomeId)
  THEN updateExistingAlert(outcomeId, S, t)
  ELSE
  IF Len(freshBets) >= cfg.freshWalletThreshold
  THEN LET m == getMarketInfo(S.marketCache, outcomeId, response)
           marketInfo == m.info
       IN  IF shouldFilterMarket(marketInfo)
           THEN [S EXCEPT !.marketCache = m.cache, !.fetched = m.fetched,
                          !.looked = Append(@, outcomeId),
                          !.evaluated = TRUE, !.counted = freshBets,
                          !.alertedOutcomes = addFiltered(S.alertedOutcomes, outcomeId)]
           ELSE LET totalAmount == sumAmounts(freshBets)
                    polymarketUrl ==
                      IF marketInfo # Null /\ marketInfo.slug # NoString
                      THEN <<"https://polymarket.com/event/", marketInfo.slug>>
                      ELSE IF marketInfo # Null /\ marketInfo.conditionId # NoString
                           THEN <<"https://polymarket.com/market/", marketInfo.conditionId>>
                           ELSE NoValue
                    alert ==
                      [id |-> t,
                       outcomeId |-> outcomeId,
                       question |-> IF marketInfo # Null THEN marketInfo.question
                                    ELSE UnknownMarket,
                       outcome |-> IF marketInfo # Null THEN marketInfo.outcome
                                   ELSE "Unknown",
                       price |-> IF marketInfo # Null THEN marketInfo.price ELSE NoValue,
                       slug |-> IF marketInfo # Null THEN marketInfo.slug ELSE NoString,
                       image |-> IF marketInfo # Null THEN marketInfo.image ELSE NoString,
                       polymarketUrl |-> polymarketUrl,
                       freshWallets |-> Len(freshBets),
                       totalAmount |-> totalAmount,
                       firstBet |-> freshBets[1].timestamp,
                       latestBet |-> freshBets[Len(freshBets)].timestamp,
                       sampleTx |-> freshBets[1].txHash,
                       wallets |-> [k \in 1..Len(freshBets) |->
                                      [address |-> freshBets[k].wallet,
                                       txHash |-> freshBets[k].txHash,
                                       timestamp |-> freshBets[k].timestamp,
                                       amount |-> freshBets[k].amount]],
                       timestamp |-> t]
                IN  [S EXCEPT !.marketCache = m.cache, !.fetched = m.fetched,
                              !.looked = Append(@, outcomeId),
                              !.evaluated = TRUE, !.counted = freshBets,
                              !.alertedOutcomes = S.alertedOutcomes \cup {outcomeId},
                              !.stats = [S.stats EXCEPT !.alertsTriggered = @ + 1],
                              !.alerts = unshiftAlert(S.alerts, alert),
                              !.events = Append(S.events, AlertEvent("newAlert", alert))]
  ELSE [S EXCEPT !.evaluated = TRUE, !.counted = freshBets]

----------------------------------------------------------------------------
(* processTrade, one participant *)

\* Variant of alreadyTracked: addresses are compared as written.
alreadyTrackedExactCase(existingBets, wallet) ==
  \E i \in 1..Len(existingBets) : existingBets[i].wallet = wallet

\* existingBets.some(bet => bet.wallet.toLowerCase() === wallet.toLowerCase())
alreadyTracked(existingBets, wallet) ==
  \E i \in 1..Len(existingBets) :
    toLowerCase(existingBets[i].wallet) = toLowerCase(wallet)

\* existingBets.find(b => b.wallet.toLowerCase() === wallet.toLowerCase()), as an index
findBet(existingBets, wallet) ==
  CHOOSE i \in 1..Len(existingBets) :
    /\ toLowerCase(existingBets[i].wallet) = toLowerCase(wallet)
    /\ \A j \in 1..(i - 1) : toLowerCase(existingBets[j].wallet) # toLowerCase(wallet)

\* Variant of addAmount: the entry added to moves to the end of the bucket.
addAmountMovingLast(existingBets, i, amountUSDC) ==
  SubSeq(existingBets, 1, i - 1) \o SubSeq(existingBets, i + 1, Len(existingBets))
    \o <<[existingBets[i] EXCEPT !.amount = @ + amountUSDC]>>

\* existing.amount = (existing.amount || 0) + amountUSDC, existing the i-th bet
addAmount(existingBets, i, amountUSDC) ==
  [existingBets EXCEPT ![i].amount = @ + amountUSDC]

\* The two participants of an OrderFilled event
participants(event) ==
  << [wallet |-> event.args.maker, assetId |-> toString(event.args.makerAssetId),
      amount |-> event.args.makerAmountFilled],
     [wallet |-> event.args.taker, assetId |-> toString(event.args.takerAssetId),
      amount |-> event.args.takerAmountFilled] >>

\* Variant of processParticipant: the zero address is handled like any wallet.
processParticipantAnyWallet(S, cfg, p, timestamp, txHash, t, rpc, response) ==
  LET f == isWalletFresh(S.walletCache, p.wallet, t, rpc)
      S1 == [S EXCEPT !.walletCache = f.cache, !.called = TRUE, !.queried = f.queried,
                      !.result = f.result, !.threw = f.threw]
  IN
  IF f.threw \/ ~f.result THEN S1
  ELSE
  LET S2 == [S1 EXCEPT !.stats = [S1.stats EXCEPT !.freshWalletsDetected = @ + 1]]
      existingBets == IF p.assetId \in DOMAIN S2.betsByOutcome
                      THEN S2.betsByOutcome[p.assetId] ELSE <<>>
      amountUSDC == toUSDC(p.amount)
  IN
  IF ~alreadyTracked(existingBets, p.wallet)
  THEN LET bet == [wallet |-> p.wallet, timestamp |-> timestamp, txHash |-> txHash,
                   isFresh |-> TRUE, amount |-> amountUSDC]
           S3 == [S2 EXCEPT !.betsByOutcome =
                              MapSet(S2.betsByOutcome, p.assetId, Append(existingBets, bet)),
                            !.inserted = TRUE,
                            !.invoked = Append(@, p.assetId)]
       IN  checkAndAlert(p.assetId, S3, cfg, t, response)
  ELSE LET i == findBet(existingBets, p.wallet)
       IN  [S2 EXCEPT !.betsByOutcome =
                        MapSet(S2.betsByOutcome, p.assetId,
                               addAmount(existingBets, i, amountUSDC)),
                      !.accumulated = TRUE]

\* Variant of processParticipant: checkAndAlert is called after an accumulation
\* too.
processParticipantAlwaysChecks(S, cfg, p, timestamp, txHash, t, rpc, response) ==
  IF p.wallet = ZeroAddress THEN S
  ELSE
  LET f == isWalletFresh(S.walletCache, p.wallet, t, rpc)
      S1 == [S EXCEPT !.walletCache = f.cache, !.called = TRUE, !.queried = f.queried,
                      !.result = f.result, !.threw = f.threw]
  IN
  IF f.threw \/ ~f.result THEN S1
  ELSE
  LET S2 == [S1 EXCEPT !.stats = [S1.stats EXCEPT !.freshWalletsDetected = @ + 1]]
      existingBets == IF p.assetId \in DOMAIN S2.betsByOutcome
                      THEN S2.betsByOutcome[p.assetId] ELSE <<>>
      amountUSDC == toUSDC(p.amount)
  IN
  IF ~alreadyTracked(existingBets, p.wallet)
  THEN LET bet == [wallet |-> p.wallet, timestamp |-> timestamp, txHash |-> txHash,
                   isFresh |-> TRUE, amount |-> amountUSDC]
           S3 == [S2 EXCEPT !.betsByOutcome =
                              MapSet(S2.betsByOutcome, p.assetId, Append(existingBets, bet)),
                            !.inserted = TRUE,
                            !.invoked = Append(@, p.assetId)]
       IN  checkAndAlert(p.assetId, S3, cfg, t, response)
  ELSE LET i == findBet(existingBets, p.wallet)
           S3 == [S2 EXCEPT !.betsByOutcome =
                              MapSet(S2.betsByOutcome, p.assetId,
                                     addAmount(existingBets, i, amountUSDC)),
                            !.accumulated = TRUE,
                            !.invoked = Append(@, p.assetId)]
       IN  checkAndAlert(p.assetId, S3, cfg, t, response)

\* One iteration of the loop over participants in processTrade, at time t, for
\* the trade read at `timestamp` with hash txHash.
processParticipant(S, cfg, p, timestamp, txHash, t, rpc, response) ==
  IF p.wallet = ZeroAddress THEN S
  ELSE
  LET f == isWalletFresh(S.walletCache, p.wallet, t, rpc)
      S1 == [S EXCEPT !.walletCache = f.cache, !.called = TRUE, !.queried = f.queried,
                      !.result = f.result, !.threw = f.threw]
  IN
  IF f.threw \/ ~f.result THEN S1
  ELSE
  LET S2 == [S1 EXCEPT !.stats = [S1.stats EXCEPT !.freshWalletsDetected = @ + 1]]
      existingBets == IF p.assetId \in DOMAIN S2.betsByOutcome
                      THEN S2.betsByOutcome[p.assetId] ELSE <<>>
      amountUSDC == toUSDC(p.amount)
  IN
  IF ~alreadyTracked(existingBets, p.wallet)
  THEN LET bet == [wallet |-> p.wallet, timestamp |-> timestamp, txHash |-> txHash,
                   isFresh |-> TRUE, amount |-> amountUSDC]
           S3 == [S2 EXCEPT !.betsByOutcome =
                              MapSet(S2.betsByOutcome, p.assetId, Append(existingBets, bet)),
                            !.inserted = TRUE,
                            !.invoked = Append(@, p.assetId)]
       IN  checkAndAlert(p.assetId, S3, cfg, t, response)
  ELSE LET i == findBet(existingBets, p.wallet)
       IN  [S2 EXCEPT !.betsByOutcome =
                        MapSet(S2.betsByOutcome, p.assetId,
                               addAmount(existingBets, i, amountUSDC)),
                      !.accumulated = TRUE]

----------------------------------------------------------------------------
(* The minimum-bet dashboard variant (src/README.md 137-1360): isWalletFresh, *)
(* cleanupOldBets, shouldFilterMarket and startBot are those of src/server.js *)
(* line for line; getMarketInfo, checkAndAlert and processTrade differ        *)

\* The rows gamma-api answers in the variant's runs: the market of token 1, an
\* excluded market for token 2, a market without a question for token 9.
MinBetRows(tokenId) ==
  CASE tokenId = "1" ->
         << [question |-> RainQuestion, slug |-> "rain-tomorrow", image |-> "rain.png",
             conditionId |-> "0xc1", marketSlug |-> "rain", id |-> "m1",
             clobTokenIds |-> <<"1", "8">>,
             outcomes |-> <<"Yes", "No">>, outcomePrices |-> <<"0.65", "0.35">>] >>
    [] tokenId = "2" ->
         << [question |-> BitcoinQuestion, slug |-> "btc-up-or-down-5m",
             image |-> "btc.png", conditionId |-> "0xc2", marketSlug |-> "btc",
             id |-> "m2", clobTokenIds |-> <<"7", "2">>,
             outcomes |-> <<"Up", "Down">>, outcomePrices |-> <<"0.50", "0.50">>] >>
    [] OTHER ->
         << [question |-> <<>>, slug |-> NoString, image |-> NoString,
             conditionId |-> "0xc9", marketSlug |-> NoString, id |-> "m9",
             clobTokenIds |-> <<"9", "6">>,
             outcomes |-> <<"Yes", "No">>, outcomePrices |-> <<"0.50", "0.50">>] >>

\* What fetch gives: it throws, answers not ok, answers no rows, or the rows.
MinBetResponses(tokenId) ==
  { [threw |-> TRUE, ok |-> FALSE, data |-> <<>>],
    [threw |-> FALSE, ok |-> FALSE, data |-> <<>>],
    [threw |-> FALSE, ok |-> TRUE, data |-> <<>>],
    [threw |-> FALSE, ok |-> TRUE, data |-> MinBetRows(tokenId)] }

\* getMarketInfo(tokenId) of the variant: marketInfo also has marketSlug and id
getMarketInfoMinBet(cache, tokenId, response) ==
  IF tokenId \in DOMAIN cache
  THEN [info |-> cache[tokenId], cache |-> cache, fetched |-> FALSE]
  ELSE IF ~response.threw /\ response.ok /\ Len(response.data) > 0
       THEN LET market == response.data[1]
                tokenIndex == indexOf(market.clobTokenIds, tokenId)
                outcome == IF tokenIndex # 0 /\ tokenIndex <= Len(market.outcomes)
                           THEN market.outcomes[tokenIndex] ELSE "Unknown"
                price == IF tokenIndex # 0 /\ tokenIndex <= Len(market.outcomePrices)
                         THEN <<parseFloat(market.outcomePrices[tokenIndex])>> ELSE NoValue
                marketInfo ==
                  [question |-> IF market.question = <<>> THEN UnknownMarket
                                ELSE market.question,
                   outcome |-> outcome, price |-> price, slug |-> market.slug,
                   image |-> market.image, conditionId |-> market.conditionId,
                   marketSlug |-> market.marketSlug, id |-> market.id]
            IN  [info |-> marketInfo, cache |-> MapSet(cache, tokenId, marketInfo),
                 fetched |-> TRUE]
       ELSE [info |-> Null, cache |-> cache, fetched |-> TRUE]

\* Variant of isUnknownMarket: no market is taken for unknown.
isUnknownMarketNever(marketInfo) == FALSE

\* !marketInfo || !marketInfo.question || marketInfo.question === 'Unknown Market'
isUnknownMarket(marketInfo) ==
  \/ marketInfo = Null
  \/ marketInfo.question = <<>>
  \/ marketInfo.question = UnknownMarket

\* the alert record the variant builds
alertRecordMinBet(outcomeId, freshBets, marketInfo, t) ==
  LET polymarketUrl ==
        IF marketInfo # Null /\ marketInfo.slug # NoString
        THEN <<"https://polymarket.com/event/", marketInfo.slug>>
        ELSE IF marketInfo # Null /\ marketInfo.marketSlug # NoString
             THEN <<"https://polymarket.com/event/", marketInfo.marketSlug>>
             ELSE IF marketInfo # Null /\ marketInfo.conditionId # NoString
                  THEN <<"https://polymarket.com/event?c=", marketInfo.conditionId>>
                  ELSE NoValue
  IN  [id |-> t,
       outcomeId |-> outcomeId,
       question |-> IF marketInfo # Null THEN marketInfo.question ELSE UnknownMarket,
       outcome |-> IF marketInfo # Null THEN marketInfo.outcome ELSE "Unknown",
       price |-> IF marketInfo # Null THEN marketInfo.price ELSE NoValue,
       slug |-> IF marketInfo # Null THEN marketInfo.slug ELSE NoString,
       image |-> IF marketInfo # Null THEN marketInfo.image ELSE NoString,
       polymarketUrl |-> polymarketUrl,
       freshWallets |-> Len(freshBets),
       totalAmount |-> sumAmounts(freshBets),
       firstBet |-> freshBets[1].timestamp,
       latestBet |-> freshBets[Len(freshBets)].timestamp,
       sampleTx |-> freshBets[1].txHash,
       wallets |-> [k \in 1..Len(freshBets) |->
                      [address |-> freshBets[k].wallet,
                       txHash |-> freshBets[k].txHash,
                       timestamp |-> freshBets[k].timestamp,
                       amount |-> freshBets[k].amount]],
       timestamp |-> t]

\* checkAndAlert(outcomeId) of the variant at time t on the program state S
checkAndAlertMinBet(outcomeId, S, cfg, t, response) ==
  LET freshBets == freshBetsOf(S.betsByOutcome, outcomeId)
  IN
  IF hasAlerted(S.alertedOutcomes, outcomeId)
  THEN updateExistingAlert(outcomeId, S, t)
  ELSE
  IF Len(freshBets) >= cfg.freshWalletThreshold
  THEN LET m == getMarketInfoMinBet(S.marketCache, outcomeId, response)
           marketInfo == m.info
           suppressed ==
             [S EXCEPT !.marketCache = m.cache, !.fetched = m.fetched,
                       !.looked = Append(@, outcomeId),
                       !.evaluated = TRUE, !.counted = freshBets,
                       !.alertedOutcomes = S.alertedOutcomes \cup {outcomeId}]
       IN  IF shouldFilterMarket(marketInfo) THEN suppressed
           ELSE IF isUnknownMarket(marketInfo) THEN suppressed
           ELSE LET alert == alertRecordMinBet(outcomeId, freshBets, marketInfo, t)
                IN  [S EXCEPT !.marketCache = m.cache, !.fetched = m.fetched,
                              !.looked = Append(@, outcomeId),
                              !.evaluated = TRUE, !.counted = freshBets,
                              !.alertedOutcomes = S.alertedOutcomes \cup {outcomeId},
                              !.stats = [S.stats EXCEPT !.alertsTriggered = @ + 1],
                              !.alerts = unshiftAlert(S.alerts, alert),
                              !.events = Append(S.events, AlertEvent("newAlert", alert))]
  ELSE [S EXCEPT !.evaluated = TRUE, !.counted = freshBets]

\* Variant of processParticipantMinBet: the minimum is applied after the wallet
\* has been looked up.
processParticipantMinBetLate(S, cfg, p, timestamp, txHash, t, rpc, response) ==
  IF p.wallet = ZeroAddress THEN S
  ELSE
  LET amountUSDC == toUSDC(p.amount)
      f == isWalletFresh(S.walletCache, p.wallet, t, rpc)
      S1 == [S EXCEPT !.walletCache = f.cache, !.called = TRUE, !.queried = f.queried,
                      !.result = f.result, !.threw = f.threw]
  IN
  IF f.threw \/ ~f.result \/ amountUSDC < cfg.minBetAmount THEN S1
  ELSE
  LET S2 == [S1 EXCEPT !.stats = [S1.stats EXCEPT !.freshWalletsDetected = @ + 1]]
      existingBets == IF p.assetId \in DOMAIN S2.betsByOutcome
                      THEN S2.betsByOutcome[p.assetId] ELSE <<>>
  IN
  IF ~alreadyTracked(existingBets, p.wallet)
  THEN LET bet == [wallet |-> p.wallet, timestamp |-> timestamp, txHash |-> txHash,
                   isFresh |-> TRUE, amount |-> amountUSDC]
           S3 == [S2 EXCEPT !.betsByOutcome =
                              MapSet(S2.betsByOutcome, p.assetId, Append(existingBets, bet)),
                            !.inserted = TRUE,
                            !.invoked = Append(@, p.assetId)]
       IN  checkAndAlertMinBet(p.assetId, S3, cfg, t, response)
  ELSE LET i == findBet(existingBets, p.wallet)
       IN  [S2 EXCEPT !.betsByOutcome =
                        MapSet(S2.betsByOutcome, p.assetId,
                               addAmount(existingBets, i, amountUSDC)),
                      !.accumulated = TRUE]

\* One iteration of the loop over participants in the variant's processTrade:
\* a participant whose amount is below CONFIG.minBetAmount is passed over
\* before its wallet is looked up.
processParticipantMinBet(S, cfg, p, timestamp, txHash, t, rpc, response) ==
  IF p.wallet = ZeroAddress THEN S
  ELSE
  LET amountUSDC == toUSDC(p.amount)
  IN
  IF amountUSDC < cfg.minBetAmount THEN S
  ELSE
  LET f == isWalletFresh(S.walletCache, p.wallet, t, rpc)
      S1 == [S EXCEPT !.walletCache = f.cache, !.called = TRUE, !.queried = f.queried,
                      !.result = f.result, !.threw = f.threw]
  IN
  IF f.threw \/ ~f.result THEN S1
  ELSE
  LET S2 == [S1 EXCEPT !.stats = [S1.stats EXCEPT !.freshWalletsDetected = @ + 1]]
      existingBets == IF p.assetId \in DOMAIN S2.betsByOutcome
                      THEN S2.betsByOutcome[p.assetId] ELSE <<>>
  IN
  IF ~alreadyTracked(existingBets, p.wallet)
  THEN LET bet == [wallet |-> p.wallet, timestamp |-> timestamp, txHash |-> txHash,
                   isFresh |-> TRUE, amount |-> amountUSDC]
           S3 == [S2 EXCEPT !.betsByOutcome =
                              MapSet(S2.betsByOutcome, p.assetId, Append(existingBets, bet)),
                            !.inserted = TRUE,
                            !.invoked = Append(@, p.assetId)]
       IN  checkAndAlertMinBet(p.assetId, S3, cfg, t, response)
  ELSE LET i == findBet(existingBets, p.wallet)
       IN  [S2 EXCEPT !.betsByOutcome =
                        MapSet(S2.betsByOutcome, p.assetId,
                               addAmount(existingBets, i, amountUSDC)),
                      !.accumulated = TRUE]

----------------------------------------------------------------------------
(* The console variant: no sink and no stats, alerts are printed, and        *)
(* processTrade calls checkAndAlert without awaiting it                      *)

\* wallets listed in a printed alert: freshBets.slice(0, 10)
ConsoleWalletsShown == 10

\* What fetch on clob.polymarket.com/price gives: it throws, answers not ok, or
\* answers with a price or without one.
PriceResponses ==
  { [threw |-> TRUE, ok |-> FALSE, price |-> NoString],
    [threw |-> FALSE, ok |-> FALSE, price |-> NoString],
    [threw |-> FALSE, ok |-> TRUE, price |-> NoString],
    [threw |-> FALSE, ok |-> TRUE, price |-> "0.65"] }

\* getMarketInfo(tokenId) of the console variant; response is what gamma-api
\* does if it is asked, priceRes what the price endpoint does if it is asked.
getMarketInfoConsole(cache, tokenId, response, priceRes) ==
  IF tokenId \in DOMAIN cache
  THEN [info |-> cache[tokenId], cache |-> cache, fetched |-> FALSE]
  ELSE IF response.threw
       THEN [info |-> Null, cache |-> cache, fetched |-> TRUE]
  ELSE IF response.ok /\ Len(response.data) > 0
       THEN LET market == response.data[1]
                tokenIndex == indexOf(market.clobTokenIds, tokenId)
                outcome == IF tokenIndex # 0 /\ tokenIndex <= Len(market.outcomes)
                           THEN market.outcomes[tokenIndex] ELSE "Unknown"
                price == IF tokenIndex # 0 /\ tokenIndex <= Len(market.outcomePrices)
                         THEN <<parseFloat(market.outcomePrices[tokenIndex])>> ELSE NoValue
                marketInfo ==
                  [question |-> IF market.question = <<>> THEN UnknownMarket
                                ELSE market.question,
                   outcome |-> outcome, price |-> price, slug |-> market.slug]
            IN  [info |-> marketInfo, cache |-> MapSet(cache, tokenId, marketInfo),
                 fetched |-> TRUE]
  ELSE IF ~priceRes.threw /\ priceRes.ok
       THEN LET marketInfo ==
                  [question |-> NoValue, outcome |-> NoString,
                   price |-> IF priceRes.price # NoString
                             THEN <<parseFloat(priceRes.price)>> ELSE NoValue,
                   slug |-> NoString]
            IN  [info |-> marketInfo, cache |-> MapSet(cache, tokenId, marketInfo),
                 fetched |-> TRUE]
  ELSE [info |-> Null, cache |-> cache, fetched |-> TRUE]

\* checkAndAlert(outcomeId) of the console variant up to its await: the call
\* returns to processTrade with the fetch of the metadata under way.
\* Variant of checkAndAlertConsole: the outcome is not yet in alertedOutcomes
\* when the call suspends at the fetch of the market.
checkAndAlertConsoleLateAdd(outcomeId, S, cfg) ==
  IF outcomeId \in S.alertedOutcomes THEN S
  ELSE
  LET freshBets == freshBetsOf(S.betsByOutcome, outcomeId)
  IN  IF Len(freshBets) >= cfg.freshWalletThreshold
      THEN [S EXCEPT !.evaluated = TRUE, !.counted = freshBets,
                     !.looked = Append(@, outcomeId),
                     !.inflight = Append(@, [outcomeId |-> outcomeId,
                                             freshBets |-> freshBets])]
      ELSE [S EXCEPT !.evaluated = TRUE, !.counted = freshBets]

checkAndAlertConsole(outcomeId, S, cfg) ==
  IF outcomeId \in S.alertedOutcomes THEN S
  ELSE
  LET freshBets == freshBetsOf(S.betsByOutcome, outcomeId)
  IN  IF Len(freshBets) >= cfg.freshWalletThreshold
      THEN [S EXCEPT !.alertedOutcomes = @ \cup {outcomeId},
                     !.evaluated = TRUE, !.counted = freshBets,
                     !.looked = Append(@, outcomeId),
                     !.inflight = Append(@, [outcomeId |-> outcomeId,
                                             freshBets |-> freshBets])]
      ELSE [S EXCEPT !.evaluated = TRUE, !.counted = freshBets]

\* what checkAndAlert of the console variant prints once getMarketInfo has
\* answered marketInfo: the call is the one begun with those freshBets
consoleAlert(call, marketInfo) ==
  LET freshBets == call.freshBets
      named == marketInfo # Null /\ marketInfo.question # <<>>
  IN  [type |-> "console", outcomeId |-> call.outcomeId,
       question |-> IF named THEN marketInfo.question ELSE NoValue,
       outcome |-> IF named THEN marketInfo.outcome ELSE NoString,
       price |-> IF marketInfo # Null THEN marketInfo.price ELSE NoValue,
       freshWallets |-> Len(freshBets),
       firstBet |-> toISOString(freshBets[1].timestamp),
       latestBet |-> toISOString(freshBets[Len(freshBets)].timestamp),
       sampleTx |-> freshBets[1].txHash,
       wallets |-> [i \in 1..Min(ConsoleWalletsShown, Len(freshBets)) |->
                      freshBets[i].wallet]]

\* One iteration of the loop over participants in the console variant's
\* processTrade.
processParticipantConsole(S, cfg, p, timestamp, txHash, t, rpc) ==
  IF p.wallet = ZeroAddress THEN S
  ELSE
  LET f == isWalletFresh(S.walletCache, p.wallet, t, rpc)
      S1 == [S EXCEPT !.walletCache = f.cache, !.called = TRUE, !.queried = f.queried,
                      !.result = f.result, !.threw = f.threw]
  IN
  IF f.threw \/ ~f.result THEN S1
  ELSE
  LET existingBets == IF p.assetId \in DOMAIN S1.betsByOutcome
                      THEN S1.betsByOutcome[p.assetId] ELSE <<>>
  IN
  IF ~alreadyTracked(existingBets, p.wallet)
  THEN LET bet == [wallet |-> p.wallet, timestamp |-> timestamp, txHash |-> txHash,
                   isFresh |-> TRUE]
           S2 == [S1 EXCEPT !.betsByOutcome =
                              MapSet(S1.betsByOutcome, p.assetId, Append(existingBets, bet)),
                            !.inserted = TRUE,
                            !.invoked = Append(@, p.assetId)]
       IN  checkAndAlertConsole(p.assetId, S2, cfg)
  ELSE S1

----------------------------------------------------------------------------
(* The environment *)

\* the head getBlockNumber reports at startup
StartHead == 1000

\* the heads the polls report: the first head up to MaxHeadGrowth above it, in
\* any order (a later poll may report a lower head than an earlier one)
Heads == StartHead..(StartHead + MaxHeadGrowth)

\* event.args of the OrderFilled events on chain
TradeArgs(maker, taker, makerAssetId, takerAssetId, makerAmountFilled, takerAmountFilled) ==
  [maker |-> maker, taker |-> taker,
   makerAssetId |-> makerAssetId, takerAssetId |-> takerAssetId,
   makerAmountFilled |-> makerAmountFilled, takerAmountFilled |-> takerAmountFilled]

\* The trades the chain may hold: two wallets on one outcome, a wallet that
\* bets again under another spelling of its address, a wallet on both sides,
\* the zero address on either side, both outcomes.
TradeEvents ==
  { TradeArgs("0xa1", "0xb2", 1, 1, 100000000, 100000000),
    TradeArgs("0xA1", ZeroAddress, 1, 2, 200000000, 100000000),
    TradeArgs("0xc3", "0xc3", 1, 2, 100000000, 100000000),
    TradeArgs("0xa1", "0xb2", 2, 2, 100000000, 200000000),
    TradeArgs(ZeroAddress, "0xc3", 1, 2, 100000000, 100000000),
    TradeArgs("0xb2", "0xa1", 1, 1, 100000000, 200000000) }

ClockSet == {ClockPoints[i] : i \in 1..Min(MaxClock, Len(ClockPoints))}
LaterClock(t) == {u \in ClockSet : u > t}
NextClock(t) == CHOOSE u \in LaterClock(t) : \A v \in LaterClock(t) : u <= v

\* the answer used where the provider is not asked
NoRpc == [ok |-> FALSE, txCount |-> 0]
\* the answer used where the metadata endpoint is not asked
NoResponse == [threw |-> TRUE, ok |-> FALSE, data |-> <<>>]

\* op after a step that is neither a participant of a trade, a sweep nor a
\* caught error
OtherStep == [kind |-> "other"]

\* latestBlock and fromBlock outside the cycle that declares them
OutOfScope == 0

\* lastProcessedBlock before `let lastProcessedBlock = ...` has run
Uninitialised == 0 - 1

----------------------------------------------------------------------------
(* State *)

\* CONFIG of the dashboard variant; the threshold (10 in the source) is scaled
\* to 2 and the backfill (50 blocks) to 10
DashboardConfig ==
  [freshWalletThreshold |-> 2, timeWindowMs |-> 24 * 60 * 60 * 1000,
   pollIntervalMs |-> 30 * 1000, startBlocksBack |-> 10]

OutcomeIds == {toString(a) : a \in AssetIds}

InitOn(cfg, events) ==
  /\ inflight = <<>>
  /\ chain = events
  /\ CONFIG = cfg
  /\ now = ClockPoints[1]
  /\ betsByOutcome = EmptyMap
  /\ walletCache = EmptyMap
  /\ alertedOutcomes = {}
  /\ marketCache = EmptyMap
  /\ stats = [totalTrades |-> 0, freshWalletsDetected |-> 0, alertsTriggered |-> 0,
              startTime |-> ClockPoints[1], lastBlock |-> 0, isConnected |-> FALSE]
  /\ alerts = <<>>
  /\ pc = "connect"
  /\ lastProcessedBlock = Uninitialised
  /\ latestBlock = OutOfScope
  /\ fromBlock = OutOfScope
  /\ pending = 0
  /\ cur = Null
  /\ emitted = <<>>
  /\ hist = [lastLookup |-> EmptyMap,
             inserted |-> [o \in OutcomeIds |-> 0], suppressed |-> {},
             queries |-> <<>>, lookups |-> [o \in OutcomeIds |-> 0]]
  /\ op = [kind |-> "init"]

\* a run whose events are not fixed beforehand: a query may return any events
InitWith(cfg) == InitOn(cfg, <<>>)

Init == InitWith(DashboardConfig)

\* The program state the functions work on, with what one step observes.
ProgramState ==
  [betsByOutcome |-> betsByOutcome, walletCache |-> walletCache,
   alertedOutcomes |-> alertedOutcomes, marketCache |-> marketCache,
   stats |-> stats, alerts |-> alerts, inflight |-> inflight,
   events |-> <<>>, invoked |-> <<>>, looked |-> <<>>, evaluated |-> FALSE,
   counted |-> <<>>,
   fetched |-> FALSE,
   called |-> FALSE, queried |-> FALSE, result |-> FALSE, threw |-> FALSE,
   inserted |-> FALSE, accumulated |-> FALSE]

\* Variant of toBlock: the chunk's end is not held back at the head.
toBlockUnclamped == fromBlock + CHUNK_SIZE - 1

\* const toBlock = Math.min(fromBlock + CHUNK_SIZE - 1, latestBlock)
toBlock == Min(fromBlock + CHUNK_SIZE - 1, latestBlock)

\* Variant of nextFromBlock: the block after the chunk's end is left out.
nextFromBlockSkipping == toBlock + 2

\* fromBlock = toBlock + 1
nextFromBlock == toBlock + 1

----------------------------------------------------------------------------
(* startBot *)

\* Time passes while startBot awaits the network.  The clock is read by
\* processTrade and by the sweep only, so time is let pass just before a trade
\* and just before the sweep (Sleep is the time that passes before a poll).
TickTo(t) ==
  /\ \/ pc = "trade" /\ cur = Null
     \/ pc = "pause" /\ fromBlock > latestBlock
  /\ t > now
  /\ now' = t
  /\ op' = OtherStep
  /\ UNCHANGED <<inflight, chain, CONFIG, betsByOutcome, walletCache, alertedOutcomes, marketCache,
                 stats, alerts, pc, lastProcessedBlock, latestBlock, fromBlock,
                 pending, cur, emitted, hist>>

\* the clock moves on to its next instant
Tick == LaterClock(now) # {} /\ TickTo(NextClock(now))

\* await provider.getNetwork() succeeds
Connect ==
  /\ pc = "connect"
  /\ stats' = [stats EXCEPT !.isConnected = TRUE]
  /\ pc' = "init"
  /\ op' = OtherStep
  /\ UNCHANGED <<inflight, chain, CONFIG, now, betsByOutcome, walletCache, alertedOutcomes, marketCache,
                 alerts, lastProcessedBlock, latestBlock, fromBlock, pending, cur,
                 emitted, hist>>

\* Variant of StartupFails: after the failure startBot goes on into its loop.
StartupFailsIntoLoop ==
  /\ pc \in {"connect", "init"}
  /\ pc' = "poll"
  /\ op' = OtherStep
  /\ UNCHANGED <<inflight, chain, CONFIG, now, betsByOutcome, walletCache, alertedOutcomes,
                 marketCache, stats, alerts, lastProcessedBlock, latestBlock, fromBlock,
                 pending, cur, emitted, hist>>

\* getNetwork throws (startBot returns), or the first getBlockNumber throws
\* (startBot rejects): the loop is never entered
StartupFails ==
  /\ pc \in {"connect", "init"}
  /\ pc' = "exited"
  /\ op' = OtherStep
  /\ UNCHANGED <<inflight, chain, CONFIG, now, betsByOutcome, walletCache, alertedOutcomes, marketCache,
                 stats, alerts, lastProcessedBlock, latestBlock, fromBlock, pending,
                 cur, emitted, hist>>

\* const currentBlock = await provider.getBlockNumber(); the cursor is set
InitCursor ==
  /\ pc = "init"
  /\ lastProcessedBlock' = StartHead - CONFIG.startBlocksBack
  /\ stats' = [stats EXCEPT !.lastBlock = StartHead]
  /\ pc' = "poll"
  /\ op' = OtherStep
  /\ UNCHANGED <<inflight, chain, CONFIG, now, betsByOutcome, walletCache, alertedOutcomes, marketCache,
                 alerts, latestBlock, fromBlock, pending, cur, emitted, hist>>

\* cleanupOldBets(); io.emit('stats', stats); then the cycle sleeps
EndCycle(newStats) ==
  /\ betsByOutcome' = cleanupOldBets(betsByOutcome, now, CONFIG.timeWindowMs)
  /\ stats' = newStats
  /\ pc' = "sleep"
  /\ latestBlock' = OutOfScope
  /\ fromBlock' = OutOfScope
  /\ op' = [kind |-> "sweep", before |-> betsByOutcome]
  /\ hist' = [hist EXCEPT !.queries = <<>>]

\* Variant of PollHead: the chunk loop is entered whatever the head is, without
\* the comparison of the head with the cursor.
PollHeadUnguarded(h) ==
  /\ pc = "poll"
  /\ latestBlock' = h
  /\ fromBlock' = lastProcessedBlock + 1
  /\ stats' = [stats EXCEPT !.lastBlock = h]
  /\ pc' = "query"
  /\ op' = OtherStep
  /\ UNCHANGED <<inflight, chain, CONFIG, now, betsByOutcome, walletCache, alertedOutcomes, marketCache,
                 alerts, lastProcessedBlock, pending, cur, emitted, hist>>

\* the cycle's getBlockNumber answers h
PollHead(h) ==
  /\ pc = "poll"
  /\ IF h > lastProcessedBlock
     THEN /\ latestBlock' = h
          /\ fromBlock' = lastProcessedBlock + 1
          /\ stats' = [stats EXCEPT !.lastBlock = h]
          /\ pc' = "query"
          /\ op' = OtherStep
          /\ UNCHANGED <<betsByOutcome, hist>>
     ELSE EndCycle([stats EXCEPT !.lastBlock = h])
  /\ UNCHANGED <<inflight, chain, CONFIG, now, walletCache, alertedOutcomes, marketCache, alerts,
                 lastProcessedBlock, pending, cur, emitted>>

\* Variant of UpstreamFails: the catch records the chunk whose query threw as
\* scanned.
UpstreamFailsSkipping ==
  /\ pc \in {"poll", "query"}
  /\ pc' = "sleep"
  /\ lastProcessedBlock' = IF pc = "query" THEN toBlock ELSE lastProcessedBlock
  /\ latestBlock' = OutOfScope
  /\ fromBlock' = OutOfScope
  /\ op' = [kind |-> "error", at |-> pc, fromBlock |-> fromBlock]
  /\ UNCHANGED <<inflight, chain, CONFIG, now, betsByOutcome, walletCache, alertedOutcomes, marketCache,
                 stats, alerts, pending, cur, emitted, hist>>

\* Variant of UpstreamFails: the error ends startBot instead of the cycle.
UpstreamFailsExits ==
  /\ pc \in {"poll", "query"}
  /\ pc' = "exited"
  /\ latestBlock' = OutOfScope
  /\ fromBlock' = OutOfScope
  /\ op' = [kind |-> "error", at |-> pc, fromBlock |-> fromBlock]
  /\ hist' = [hist EXCEPT !.queries = <<>>]
  /\ UNCHANGED <<inflight, chain, CONFIG, now, betsByOutcome, walletCache, alertedOutcomes, marketCache,
                 stats, alerts, lastProcessedBlock, pending, cur, emitted>>

\* getBlockNumber or queryFilter throws: caught by the cycle's catch
UpstreamFails ==
  /\ pc \in {"poll", "query"}
  /\ pc' = "sleep"
  /\ latestBlock' = OutOfScope
  /\ fromBlock' = OutOfScope
  /\ op' = [kind |-> "error", at |-> pc, fromBlock |-> fromBlock]
  /\ hist' = [hist EXCEPT !.queries = <<>>]
  /\ UNCHANGED <<inflight, chain, CONFIG, now, betsByOutcome, walletCache, alertedOutcomes, marketCache,
                 stats, alerts, lastProcessedBlock, pending, cur, emitted>>

\* exchange.queryFilter('OrderFilled', fromBlock, toBlock) answers n events,
\* the run holding at most `budget` trades
Query(n, budget) ==
  /\ pc = "query"
  /\ stats.totalTrades + n <= budget
  /\ pending' = n
  /\ IF n = 0
     THEN pc' = "pause" /\ fromBlock' = nextFromBlock
     ELSE pc' = "trade" /\ UNCHANGED fromBlock
  /\ op' = OtherStep
  /\ hist' = [hist EXCEPT !.queries = Append(@, <<fromBlock, toBlock>>)]
  /\ UNCHANGED <<inflight, chain, CONFIG, now, betsByOutcome, walletCache, alertedOutcomes, marketCache,
                 stats, alerts, lastProcessedBlock, latestBlock, cur, emitted>>

QueryChunk(n) == Query(n, MaxTrades)

\* The state R that one iteration of the loop over participants has produced
\* becomes the program's, and startBot moves on: k is the participant, rpc
\* what the provider answered.
Commit(R, k, event, timestamp, rpc) ==
  LET p == participants(event)[k]
      key == toLowerCase(p.wallet)
  IN  /\ betsByOutcome' = R.betsByOutcome
      /\ walletCache' = R.walletCache
      /\ alertedOutcomes' = R.alertedOutcomes
      /\ marketCache' = R.marketCache
      /\ stats' = R.stats
      /\ alerts' = R.alerts
      /\ emitted' = emitted \o R.events
      /\ hist' =
           [lastLookup |-> IF R.called /\ R.queried /\ rpc.ok
                           THEN MapSet(hist.lastLookup, key,
                                       [at |-> now, result |-> R.result])
                           ELSE hist.lastLookup,
            inserted |-> IF R.inserted
                         THEN [hist.inserted EXCEPT ![p.assetId] = @ + 1]
                         ELSE hist.inserted,
            suppressed |-> hist.suppressed \cup
                           {o \in R.alertedOutcomes \ alertedOutcomes :
                              \A i \in 1..Len(R.alerts) : R.alerts[i].outcomeId # o},
            queries |-> IF R.threw THEN <<>> ELSE hist.queries,
            lookups |-> IF R.looked # <<>>
                        THEN [hist.lookups EXCEPT ![p.assetId] = @ + Len(R.looked)]
                        ELSE hist.lookups]
      /\ op' = [kind |-> "participant", part |-> k, wallet |-> p.wallet,
                assetId |-> p.assetId, amount |-> p.amount,
                known |-> IF key \in DOMAIN hist.lastLookup
                          THEN <<hist.lastLookup[key]>> ELSE NoValue,
                called |-> R.called,
                queried |-> R.queried, failed |-> R.queried /\ ~rpc.ok,
                result |-> R.result, inserted |-> R.inserted,
                accumulated |-> R.accumulated, invoked |-> R.invoked,
                looked |-> R.looked,
                evaluated |-> R.evaluated,
                counted |-> R.counted, fetched |-> R.fetched, events |-> R.events]
      /\ IF R.threw
         THEN /\ pc' = "sleep" /\ cur' = Null /\ pending' = 0
              /\ latestBlock' = OutOfScope /\ fromBlock' = OutOfScope
         ELSE IF k = 1
              THEN /\ pc' = "trade"
                   /\ cur' = [event |-> event, timestamp |-> timestamp]
                   /\ UNCHANGED <<pending, fromBlock, latestBlock>>
              ELSE /\ cur' = Null
                   /\ pending' = pending - 1
                   /\ IF pending = 1
                      THEN pc' = "pause" /\ fromBlock' = nextFromBlock
                      ELSE pc' = "trade" /\ UNCHANGED fromBlock
                   /\ UNCHANGED latestBlock
      /\ inflight' = R.inflight
      /\ UNCHANGED <<chain, CONFIG, now, lastProcessedBlock>>

\* One participant of a trade is processed: S is the state processTrade works
\* on, k the participant, rpc and response what the upstream services answer.
Participate(S, k, event, timestamp, rpc, response) ==
  \E R \in {processParticipant(S, CONFIG, participants(event)[k], timestamp,
                              event.transactionHash, now, rpc, response)} :
    Commit(R, k, event, timestamp, rpc)

\* of the provider's possible answers, those that matter for wallet w now
RpcFor(S, w, answers) ==
  IF w # ZeroAddress /\ isWalletFresh(S.walletCache, w, now, NoRpc).queried
  THEN answers ELSE {NoRpc}

\* the endpoint's answers that matter for participant p now
ResponsesFor(S, p, timestamp, txHash, rpc) ==
  IF processParticipant(S, CONFIG, p, timestamp, txHash, now, rpc, NoResponse).fetched
  THEN GammaResponses(p.assetId) ELSE {NoResponse}

\* processTrade starts on the next event of the chunk, whose args are `args`,
\* and handles the maker; answers is what the provider may answer
MakerStep(args, answers) ==
  /\ pc = "trade"
  /\ cur = Null
  /\ LET event == [args |-> args, transactionHash |-> stats.totalTrades + 1]
         S == [ProgramState EXCEPT !.stats = [stats EXCEPT !.totalTrades = @ + 1]]
         p == participants(event)[1]
     IN  \E rpc \in RpcFor(S, p.wallet, answers) :
           \E response \in ResponsesFor(S, p, now, event.transactionHash, rpc) :
             Participate(S, 1, event, now, rpc, response)

ProcessMaker(args) == MakerStep(args, RpcResults)

\* processTrade handles the taker of the event it is on; answers is what the
\* provider may answer
TakerStep(answers) ==
  /\ pc = "trade"
  /\ cur # Null
  /\ LET S == ProgramState
         p == participants(cur.event)[2]
     IN  \E rpc \in RpcFor(S, p.wallet, answers) :
           \E response \in
               ResponsesFor(S, p, cur.timestamp, cur.event.transactionHash, rpc) :
             Participate(S, 2, cur.event, cur.timestamp, rpc, response)

ProcessTaker == TakerStep(RpcResults)

\* the 100 ms pause after a chunk is over and another chunk follows
NextChunk ==
  /\ pc = "pause"
  /\ fromBlock <= latestBlock
  /\ pc' = "query"
  /\ op' = OtherStep
  /\ UNCHANGED <<inflight, chain, CONFIG, now, betsByOutcome, walletCache, alertedOutcomes, marketCache,
                 stats, alerts, lastProcessedBlock, latestBlock, fromBlock, pending,
                 cur, emitted, hist>>

\* the pause after the last chunk is over: the cursor moves to the head, then
\* the sweep and the stats
FinishCycle ==
  /\ pc = "pause"
  /\ fromBlock > latestBlock
  /\ lastProcessedBlock' = latestBlock
  /\ EndCycle(stats)
  /\ UNCHANGED <<inflight, chain, CONFIG, now, walletCache, alertedOutcomes, marketCache, alerts,
                 pending, cur, emitted>>

\* setTimeout(resolve, CONFIG.pollIntervalMs) fires, at least that much later
Sleep(t) ==
  /\ pc = "sleep"
  /\ t >= now + CONFIG.pollIntervalMs
  /\ now' = t
  /\ pc' = "poll"
  /\ op' = OtherStep
  /\ UNCHANGED <<inflight, chain, CONFIG, betsByOutcome, walletCache, alertedOutcomes, marketCache,
                 stats, alerts, lastProcessedBlock, latestBlock, fromBlock, pending,
                 cur, emitted, hist>>

Next ==
  \/ Tick
  \/ Connect
  \/ StartupFails
  \/ InitCursor
  \/ \E h \in Heads : PollHead(h)
  \/ UpstreamFails
  \/ \E n \in 0..MaxChunkEvents : QueryChunk(n)
  \/ \E args \in TradeEvents : ProcessMaker(args)
  \/ ProcessTaker
  \/ NextChunk
  \/ FinishCycle
  \/ \E t \in ClockSet : Sleep(t)

Spec == Init /\ [][Next]_vars

----------------------------------------------------------------------------
(* The cluster run: more trades, all by fresh wallets, on three outcomes,   *)
(* with sweeps between them and alerts pushed out of the list                *)

\* getTransactionCount of a fresh wallet
FreshRpc == {rpc \in RpcResults : rpc.ok /\ rpc.txCount <= FreshMaxTxCount}

\* two wallets on outcome 1, the same two on outcome 2 and on outcome 9, a
\* third on outcomes 1 and 2
ClusterEvents ==
  { TradeArgs("0xa1", "0xb2", 1, 1, 100000000, 100000000),
    TradeArgs("0xa1", "0xb2", 2, 2, 100000000, 200000000),
    TradeArgs("0xa1", "0xb2", 9, 9, 100000000, 100000000),
    TradeArgs("0xc3", "0xc3", 1, 2, 100000000, 100000000) }

\* the instants of the cluster run: the start, and then each a window and a
\* second after the one before
ClusterClock ==
  {ClockPoints[1] + k * (DashboardConfig.timeWindowMs + 1000) : k \in 0..MaxClusterDays}

ClusterTick == \E t \in ClusterClock : TickTo(t)
ClusterPoll == \E h \in Heads : PollHead(h)
ClusterQuery == \E n \in 0..MaxChunkEvents : Query(n, MaxClusterTrades)
ClusterMaker == \E args \in ClusterEvents : MakerStep(args, FreshRpc)
ClusterTaker == TakerStep(FreshRpc)
ClusterSleep == \E t \in ClusterClock : Sleep(t)

NextCluster ==
  \/ ClusterTick
  \/ Connect
  \/ InitCursor
  \/ ClusterPoll
  \/ ClusterQuery
  \/ ClusterMaker
  \/ ClusterTaker
  \/ NextChunk
  \/ FinishCycle
  \/ ClusterSleep

SpecCluster == Init /\ [][NextCluster]_vars

\* The scanning loop alone, over ranges that hold no event, with an upstream
\* that may fail at any await and with every awaited call settling in the end:
\* a step of the loop that stays possible is taken.  The heads include one
\* that is more than a chunk past the start, so that a cycle has two queries.
LiveHeads == Heads \cup {StartHead + CHUNK_SIZE + 1}

NextLive ==
  \/ Connect
  \/ InitCursor
  \/ \E h \in LiveHeads : PollHead(h)
  \/ UpstreamFails
  \/ Query(0, 0)
  \/ NextChunk
  \/ FinishCycle
  \/ \E t \in ClockSet : Sleep(t)

SpecLive ==
  /\ Init
  /\ [][NextLive]_vars
  /\ WF_vars(Query(0, 0))
  /\ WF_vars(NextChunk)
  /\ WF_vars(FinishCycle)
  /\ WF_vars(\E t \in ClockSet : Sleep(t))

----------------------------------------------------------------------------
(* The nine-wallet run: threshold 3, nine fresh wallets, 50 USDC each, all on *)
(* outcome "1", the nine trades in one chunk and inside the time window       *)

NineWallets == <<"0xd1", "0xd2", "0xd3", "0xd4", "0xd5", "0xd6", "0xd7", "0xd8", "0xd9">>

NineConfig == [DashboardConfig EXCEPT !.freshWalletThreshold = 3]

\* the i-th trade: wallet i sells 50 USDC worth of outcome 1 to nobody
NineArgs(i) ==
  TradeArgs(NineWallets[i], ZeroAddress, 1, 2, 50 * UsdcScale, 50 * UsdcScale)

InitNine == InitWith(NineConfig)

\* time passes, the run staying inside the window
NineTick == Tick /\ now' < CONFIG.timeWindowMs
NinePoll == PollHead(StartHead)
NineQuery == Query(Len(NineWallets), Len(NineWallets))
NineMaker == MakerStep(NineArgs(stats.totalTrades + 1), FreshRpc)

NextNine ==
  \/ NineTick
  \/ Connect
  \/ InitCursor
  \/ NinePoll
  \/ NineQuery
  \/ NineMaker
  \/ ProcessTaker
  \/ FinishCycle

SpecNine == InitNine /\ [][NextNine]_vars

----------------------------------------------------------------------------
(* The minimum-bet run: the variant of src/README.md, fresh wallets, bets at *)
(* and below the minimum, on the three outcomes                              *)

\* trades processed in one minimum-bet run
MaxMinBetTrades == 3

\* CONFIG of the variant; the threshold (10 in the source) is scaled to 2 and
\* the backfill (50 blocks) to 10
MinBetConfig ==
  [freshWalletThreshold |-> 2, minBetAmount |-> 1000,
   timeWindowMs |-> 24 * 60 * 60 * 1000, pollIntervalMs |-> 30 * 1000,
   startBlocksBack |-> 10]

\* two wallets on outcome 9, a third on outcomes 9 and 1, two on outcome 1 of
\* which one below the minimum, the two on outcome 1, the two on outcome 2
MinBetEvents ==
  { TradeArgs("0xa1", "0xb2", 9, 9, 1000000000, 1000000000),
    TradeArgs("0xc3", "0xc3", 9, 1, 2000000000, 1000000000),
    TradeArgs("0xa1", "0xb2", 1, 1, 1000000000, 999000000),
    TradeArgs("0xa1", "0xb2", 1, 1, 1000000000, 1000000000),
    TradeArgs("0xa1", "0xb2", 2, 2, 1000000000, 1000000000) }

InitMinBet == InitWith(MinBetConfig)

\* One participant of a trade is processed by the variant's processTrade.
ParticipateMinBet(S, k, event, timestamp, rpc, response) ==
  \E R \in {processParticipantMinBet(S, CONFIG, participants(event)[k], timestamp,
                                    event.transactionHash, now, rpc, response)} :
    Commit(R, k, event, timestamp, rpc)

\* the endpoint's answers that matter for participant p now
ResponsesForMinBet(S, p, timestamp, txHash, rpc) ==
  IF processParticipantMinBet(S, CONFIG, p, timestamp, txHash, now, rpc,
                              NoResponse).fetched
  THEN MinBetResponses(p.assetId) ELSE {NoResponse}

MinBetPoll == \E h \in Heads : PollHead(h)

MinBetQuery == \E n \in 0..MaxChunkEvents : Query(n, MaxMinBetTrades)

MinBetMaker ==
  \E args \in MinBetEvents :
    /\ pc = "trade"
    /\ cur = Null
    /\ LET event == [args |-> args, transactionHash |-> stats.totalTrades + 1]
           S == [ProgramState EXCEPT !.stats = [stats EXCEPT !.totalTrades = @ + 1]]
           p == participants(event)[1]
       IN  \E rpc \in RpcFor(S, p.wallet, FreshRpc) :
             \E response \in ResponsesForMinBet(S, p, now, event.transactionHash, rpc) :
               ParticipateMinBet(S, 1, event, now, rpc, response)

MinBetTaker ==
  /\ pc = "trade"
  /\ cur # Null
  /\ LET S == ProgramState
         p == participants(cur.event)[2]
     IN  \E rpc \in RpcFor(S, p.wallet, FreshRpc) :
           \E response \in
               ResponsesForMinBet(S, p, cur.timestamp, cur.event.transactionHash, rpc) :
             ParticipateMinBet(S, 2, cur.event, cur.timestamp, rpc, response)

MinBetSleep == \E t \in ClusterClock : Sleep(t)

NextMinBet ==
  \/ Connect
  \/ InitCursor
  \/ MinBetPoll
  \/ MinBetQuery
  \/ MinBetMaker
  \/ MinBetTaker
  \/ NextChunk
  \/ FinishCycle
  \/ MinBetSleep

SpecMinBet == InitMinBet /\ [][NextMinBet]_vars

----------------------------------------------------------------------------
(* The chain run: a fixed chain of events in blocks 100..119, scanned in one  *)
(* cycle of two chunks, every upstream answer a function of what is asked     *)

\* events on the chain
MaxChainEvents == 3

\* the cursor when the cycle starts, and the head its getBlockNumber reports
ChainCursor == 99
ChainHead == 119

\* the blocks that hold events: the ends of the chunks 100..109 and 110..119
ChainBlocks == {ChainCursor + 1, ChainCursor + CHUNK_SIZE,
                ChainCursor + CHUNK_SIZE + 1, ChainHead}

\* event.args of the events the chain may hold: two wallets on the two
\* outcomes of one market, the same two the other way round, a third wallet
\* with one that has a history, two wallets on the outcome of an excluded market
ChainTrades ==
  { TradeArgs("0xa1", "0xb2", 1, 9, 100000000, 100000000),
    TradeArgs("0xb2", "0xA1", 1, 9, 200000000, 100000000),
    TradeArgs("0xd4", "0xc3", 1, 2, 100000000, 100000000),
    TradeArgs("0xa1", "0xb2", 2, 2, 100000000, 100000000) }

\* the chains: up to MaxChainEvents events in block order
Chains ==
  UNION { { [i \in 1..n |-> [blockNumber |-> c[i][1], args |-> c[i][2],
                              transactionHash |-> i]] :
            c \in {f \in [1..n -> ChainBlocks \X ChainTrades] :
                     \A i \in 1..(n - 1) : f[i][1] <= f[i + 1][1]} } :
          n \in 0..MaxChainEvents }

\* getTransactionCount on the chain run: 0xc3 has a history, the others none
ChainRpc(wallet) ==
  [ok |-> TRUE,
   txCount |-> IF toLowerCase(wallet) = "0xc3" THEN FreshMaxTxCount + 1
               ELSE FreshMaxTxCount]

\* the metadata endpoint on the chain run: it answers the market's rows
ChainResponse(tokenId) == [threw |-> FALSE, ok |-> TRUE, data |-> GammaRows(tokenId)]

\* exchange.queryFilter('OrderFilled', from, to): the events of those blocks
queryFilter(events, from, to) ==
  SelectSeq(events, LAMBDA e : from <= e.blockNumber /\ e.blockNumber <= to)

\* the module state when the loop of startBot is entered
LoopEntryState ==
  [betsByOutcome |-> EmptyMap, walletCache |-> EmptyMap, alertedOutcomes |-> {},
   marketCache |-> EmptyMap,
   stats |-> [totalTrades |-> 0, freshWalletsDetected |-> 0, alertsTriggered |-> 0,
              startTime |-> ClockPoints[1], lastBlock |-> ChainCursor + CONFIG.startBlocksBack,
              isConnected |-> TRUE],
   alerts |-> <<>>, inflight |-> <<>>,
   events |-> <<>>, invoked |-> <<>>, looked |-> <<>>, evaluated |-> FALSE,
   counted |-> <<>>,
   fetched |-> FALSE,
   called |-> FALSE, queried |-> FALSE, result |-> FALSE, threw |-> FALSE,
   inserted |-> FALSE, accumulated |-> FALSE]

InitChunk ==
  /\ inflight = <<>>
  /\ chain \in Chains
  /\ CONFIG = DashboardConfig
  /\ now = ClockPoints[1]
  /\ betsByOutcome = LoopEntryState.betsByOutcome
  /\ walletCache = LoopEntryState.walletCache
  /\ alertedOutcomes = LoopEntryState.alertedOutcomes
  /\ marketCache = LoopEntryState.marketCache
  /\ stats = LoopEntryState.stats
  /\ alerts = LoopEntryState.alerts
  /\ pc = "poll"
  /\ lastProcessedBlock = ChainCursor
  /\ latestBlock = OutOfScope
  /\ fromBlock = OutOfScope
  /\ pending = 0
  /\ cur = Null
  /\ emitted = <<>>
  /\ hist = [lastLookup |-> EmptyMap,
             inserted |-> [o \in OutcomeIds |-> 0], suppressed |-> {},
             queries |-> <<>>, lookups |-> [o \in OutcomeIds |-> 0]]
  /\ op = [kind |-> "init"]

\* processTrade(provider, event) at time t, on the chain run
processTrade(S, cfg, event, t) ==
  LET timestamp == t
      S0 == [S EXCEPT !.stats = [S.stats EXCEPT !.totalTrades = @ + 1]]
      maker == participants(event)[1]
      taker == participants(event)[2]
      S1 == processParticipant(S0, cfg, maker, timestamp, event.transactionHash, t,
                               ChainRpc(maker.wallet), ChainResponse(maker.assetId))
  IN  processParticipant(S1, cfg, taker, timestamp, event.transactionHash, t,
                         ChainRpc(taker.wallet), ChainResponse(taker.assetId))

\* for (const event of events) await processTrade(provider, event)
RECURSIVE processEvents(_, _, _, _)
processEvents(S, cfg, events, t) ==
  IF events = <<>> THEN S
  ELSE processEvents(processTrade(S, cfg, Head(events), t), cfg, Tail(events), t)

\* the events of the chunk being scanned
chunkEvents == queryFilter(chain, fromBlock, toBlock)

ChunkPoll == PollHead(ChainHead)

ChunkQuery == Query(Len(chunkEvents), MaxChainEvents)

ChunkMaker ==
  /\ pc = "trade"
  /\ cur = Null
  /\ LET e == chunkEvents[Len(chunkEvents) - pending + 1]
         event == [args |-> e.args, transactionHash |-> e.transactionHash]
         S == [ProgramState EXCEPT !.stats = [stats EXCEPT !.totalTrades = @ + 1]]
         p == participants(event)[1]
     IN  Participate(S, 1, event, now, ChainRpc(p.wallet), ChainResponse(p.assetId))

ChunkTaker ==
  /\ pc = "trade"
  /\ cur # Null
  /\ LET p == participants(cur.event)[2]
     IN  Participate(ProgramState, 2, cur.event, cur.timestamp,
                     ChainRpc(p.wallet), ChainResponse(p.assetId))

NextChunkRun ==
  \/ ChunkPoll
  \/ ChunkQuery
  \/ ChunkMaker
  \/ ChunkTaker
  \/ NextChunk
  \/ FinishCycle

SpecChunk == InitChunk /\ [][NextChunkRun]_vars

\* The chain run over several cycles, with an upstream that may fail: an
\* event in the first block of the first chunk and one in the last block of
\* the second, so that a failure of the second query sends the next cycle
\* over the first chunk again.
MaxRescanCycles == 3

RescanChains ==
  {c \in Chains : /\ Len(c) = 2
                  /\ c[1].blockNumber = ChainCursor + 1
                  /\ c[2].blockNumber = ChainHead}

InitRescan == InitChunk /\ chain \in RescanChains

NextRescan ==
  \/ ChunkPoll
  \/ UpstreamFails
  \/ Query(Len(chunkEvents), Len(chain) * MaxRescanCycles)
  \/ ChunkMaker
  \/ ChunkTaker
  \/ NextChunk
  \/ FinishCycle
  \/ (now < ClockPoints[MaxRescanCycles] /\ \E t \in ClockSet : Sleep(t))

SpecRescan == InitRescan /\ [][NextRescan]_vars

----------------------------------------------------------------------------
(* The console run: the console variant processes the events of one chunk,   *)
(* the fetches its checkAndAlert calls started answering while it goes on    *)

\* CONFIG of the console variant; the threshold (10 in the source) is scaled to
\* 2 and the backfill (50 blocks) to 10
ConsoleConfig ==
  [freshWalletThreshold |-> 2, timeWindowMs |-> 24 * 60 * 60 * 1000,
   pollIntervalMs |-> 30 * 1000, startBlocksBack |-> 10]

\* what queryFilter returned for the chunk: one event or more, all in its
\* first block
ConsoleChains ==
  {c \in Chains : Len(c) >= 1 /\ \A i \in 1..Len(c) : c[i].blockNumber = ChainCursor + 1}

InitConsole ==
  /\ inflight = <<>>
  /\ chain \in ConsoleChains
  /\ CONFIG = ConsoleConfig
  /\ now = ClockPoints[1]
  /\ betsByOutcome = EmptyMap
  /\ walletCache = EmptyMap
  /\ alertedOutcomes = {}
  /\ marketCache = EmptyMap
  /\ stats = Null
  /\ alerts = <<>>
  /\ pc = "trade"
  /\ lastProcessedBlock = ChainCursor
  /\ latestBlock = ChainCursor + CHUNK_SIZE
  /\ fromBlock = ChainCursor + 1
  /\ pending = Len(chain)
  /\ cur = Null
  /\ emitted = <<>>
  /\ hist = [lastLookup |-> EmptyMap,
             inserted |-> [o \in OutcomeIds |-> 0], suppressed |-> {},
             queries |-> <<>>, lookups |-> [o \in OutcomeIds |-> 0]]
  /\ op = [kind |-> "init"]

\* the event processTrade is on, or goes to next
consoleEvent ==
  IF cur # Null THEN cur.event
  ELSE LET e == chain[Len(chain) - pending + 1]
       IN  [args |-> e.args, transactionHash |-> e.transactionHash]

\* processTrade starts on the next event of the chunk and handles the maker
ConsoleMaker ==
  /\ pc = "trade"
  /\ cur = Null
  /\ LET p == participants(consoleEvent)[1]
     IN  \E R \in {processParticipantConsole(ProgramState, CONFIG, p, now,
                                             consoleEvent.transactionHash, now,
                                             ChainRpc(p.wallet))} :
           Commit(R, 1, consoleEvent, now, ChainRpc(p.wallet))

\* processTrade handles the taker of the event it is on
ConsoleTaker ==
  /\ pc = "trade"
  /\ cur # Null
  /\ LET p == participants(cur.event)[2]
     IN  \E R \in {processParticipantConsole(ProgramState, CONFIG, p, cur.timestamp,
                                             cur.event.transactionHash, now,
                                             ChainRpc(p.wallet))} :
           Commit(R, 2, cur.event, cur.timestamp, ChainRpc(p.wallet))

\* main is waiting for the network or a timer, so that an answered fetch can be
\* delivered: in the pause after the chunk, or where the next participant's
\* wallet is not in walletCache and its transaction count is asked for
AwaitsNetwork ==
  \/ pc = "pause"
  \/ /\ pc = "trade"
     /\ LET p == participants(consoleEvent)[IF cur # Null THEN 2 ELSE 1]
        IN  /\ p.wallet # ZeroAddress
            /\ isWalletFresh(walletCache, p.wallet, now, NoRpc).queried

\* the fetch of the i-th running call of checkAndAlert answers; the call
\* resumes after its await and prints the alert
ConsoleFetchDone(i, response, priceRes) ==
  /\ i \in 1..Len(inflight)
  /\ AwaitsNetwork
  /\ LET call == inflight[i]
         m == getMarketInfoConsole(marketCache, call.outcomeId, response, priceRes)
     IN  /\ marketCache' = m.cache
         /\ emitted' = Append(emitted, consoleAlert(call, m.info))
         /\ inflight' = SubSeq(inflight, 1, i - 1) \o SubSeq(inflight, i + 1, Len(inflight))
         /\ op' = [kind |-> "resume", outcomeId |-> call.outcomeId, info |-> m.info]
  /\ UNCHANGED <<chain, CONFIG, now, betsByOutcome, walletCache, alertedOutcomes, stats,
                 alerts, pc, lastProcessedBlock, latestBlock, fromBlock, pending, cur,
                 hist>>

ConsoleResume ==
  \E i \in 1..Len(inflight) :
    \E response \in GammaResponses(inflight[i].outcomeId), priceRes \in PriceResponses :
      ConsoleFetchDone(i, response, priceRes)

NextConsole ==
  \/ ConsoleMaker
  \/ ConsoleTaker
  \/ ConsoleResume

SpecConsole == InitConsole /\ [][NextConsole]_vars

----------------------------------------------------------------------------
(* The lookup run: getMarketInfo is called again and again, for any token id *)
(* and with any answer of the endpoint                                       *)

\* calls of getMarketInfo in one lookup run
MaxLookups == 3

\* the token ids asked for
TokenIds == {toString(a) : a \in AssetIds}

\* what the endpoint may do when asked for a token id: what GammaResponses
\* lists, or answer the rows of a market that does not hold the token
LookupResponses(tokenId) ==
  GammaResponses(tokenId) \cup
    {[threw |-> FALSE, ok |-> TRUE,
      data |-> GammaRows(IF tokenId = "2" THEN "1" ELSE "2")]}

\* getMarketInfo(tokenId) is called and answers; the call is added to the
\* history of calls
LookupMarket(tokenId, response) ==
  /\ Len(emitted) < MaxLookups
  /\ \E R \in {getMarketInfo(marketCache, tokenId, response)} :
       /\ marketCache' = R.cache
       /\ emitted' = Append(emitted, [type |-> "getMarketInfo", outcomeId |-> tokenId,
                                      info |-> R.info, fetched |-> R.fetched])
       /\ op' = [kind |-> "lookup", tokenId |-> tokenId, info |-> R.info,
                 fetched |-> R.fetched]
  /\ UNCHANGED <<inflight, chain, CONFIG, now, betsByOutcome, walletCache, alertedOutcomes,
                 stats, alerts, pc, lastProcessedBlock, latestBlock, fromBlock, pending,
                 cur, hist>>

NextLookup ==
  \E tokenId \in TokenIds : \E response \in LookupResponses(tokenId) :
    LookupMarket(tokenId, response)

SpecLookup == Init /\ [][NextLookup]_vars

----------------------------------------------------------------------------
(* Properties *)

\* positions in the sink's history of the events of one type for one outcome
EventsOf(o, type) ==
  {j \in 1..Len(emitted) : emitted[j].outcomeId = o /\ emitted[j].type = type}

Max0(n) == IF n > 0 THEN n ELSE 0

\* the questions markets and alerts carry
Questions == {RainQuestion, BitcoinQuestion, UnknownMarket}
\* those of them that match one of filterPatterns
ExcludedQuestions ==
  {q \in Questions :
     \E i \in 1..Len(filterPatterns) : RegexTest(filterPatterns[i], toLowerCaseText(q))}
\* the outcomes of a market whose question is excluded
FilteredOutcomes == {o \in OutcomeIds : GammaRows(o)[1].question \in ExcludedQuestions}

\* the last step processed a participant for whom isWalletFresh was called
LookupStep == op.kind = "participant" /\ op.called

\* C1: over any run of trades, sweeps and evictions from the alert list there
\* is at most one newAlert per outcome; the alertUpdates of an outcome number at
\* most N - threshold, N the first-time fresh bets recorded on it; and an
\* outcome that was not suppressed by the filter and whose bucket holds
\* threshold or more bets has had exactly one newAlert.
AlertOncePerOutcome ==
  \A o \in OutcomeIds :
    /\ Cardinality(EventsOf(o, "newAlert")) <= 1
    /\ Cardinality(EventsOf(o, "alertUpdate"))
         <= Max0(hist.inserted[o] - CONFIG.freshWalletThreshold)
    /\ ( /\ o \notin hist.suppressed
         /\ o \in DOMAIN betsByOutcome
         /\ Len(betsByOutcome[o]) >= CONFIG.freshWalletThreshold )
       => Cardinality(EventsOf(o, "newAlert")) = 1

\* an outcome got its newAlert, the record was pushed out of the alerts list by
\* a later alert, and a further first-time bet on the outcome has just been
\* recorded without any event
AlertEvictedThenBet ==
  /\ op.kind = "participant" /\ op.inserted /\ op.events = <<>>
  /\ op.assetId \in alertedOutcomes \ hist.suppressed
  /\ \A i \in 1..Len(alerts) : alerts[i].outcomeId # op.assetId
  /\ Cardinality(EventsOf(op.assetId, "newAlert")) = 1
  /\ hist.inserted[op.assetId] > CONFIG.freshWalletThreshold

\* C2: every ledger entry checkAndAlert counts is at most timeWindowMs old at
\* the moment it is read.
CountedWithinWindow ==
  (op.kind = "participant" /\ op.evaluated)
    => \A i \in 1..Len(op.counted) :
         now - op.counted[i].timestamp <= CONFIG.timeWindowMs

\* no two entries of a bucket belong to one wallet, addresses compared
\* without regard to case
OneEntryPerWallet ==
  \A o \in DOMAIN betsByOutcome :
    \A i, j \in 1..Len(betsByOutcome[o]) :
      toLowerCase(betsByOutcome[o][i].wallet) = toLowerCase(betsByOutcome[o][j].wallet)
        => i = j

\* a repeated bet changes the amount of the wallet's entry and nothing else
AccumulateStep ==
  (op'.kind = "participant" /\ op'.accumulated)
    => /\ op'.assetId \in DOMAIN betsByOutcome
       /\ \E i \in 1..Len(betsByOutcome[op'.assetId]) :
            /\ toLowerCase(betsByOutcome[op'.assetId][i].wallet) = toLowerCase(op'.wallet)
            /\ betsByOutcome' =
                 [betsByOutcome EXCEPT ![op'.assetId][i].amount =
                                          @ + (op'.amount \div UsdcScale)]

\* C3: in every state a bucket holds at most one entry per wallet (compared
\* case-insensitively), and a repeated fresh bet of a wallet already in the
\* bucket adds its amount to that entry instead of appending.
WalletEntryUnique == []OneEntryPerWallet /\ [][AccumulateStep]_vars

\* "0xA1" has bet 200 on an outcome where "0xa1" had bet 100: one entry, 300
AccumulatedTo300 ==
  /\ op.kind = "participant" /\ op.accumulated /\ op.wallet = "0xA1"
  /\ \E i \in 1..Len(betsByOutcome[op.assetId]) :
       /\ betsByOutcome[op.assetId][i].wallet = "0xa1"
       /\ betsByOutcome[op.assetId][i].amount = 300

\* C4 as stated: an outcome of a market whose question matches an excluded
\* pattern never gets a newAlert.
FilteredMarketNeverAlerts ==
  \A j \in 1..Len(emitted) :
    emitted[j].type = "newAlert" => emitted[j].outcomeId \notin FilteredOutcomes

\* C4, amended: when the metadata resolver has returned the market and its
\* question matches an excluded pattern, the outcome gets no newAlert, however
\* many fresh wallets bet on it; no newAlert carries an excluded question.
ResolvedFilteredNeverAlerts ==
  /\ \A j \in 1..Len(emitted) :
       emitted[j].type = "newAlert" => emitted[j].question \notin ExcludedQuestions
  /\ \A o \in DOMAIN marketCache :
       marketCache[o].question \in ExcludedQuestions => EventsOf(o, "newAlert") = {}

\* an outcome of the excluded market holds more bets than the threshold, its
\* metadata resolved, and there is no event for it
FilteredAboveThreshold ==
  \E o \in DOMAIN marketCache :
    /\ marketCache[o].question \in ExcludedQuestions
    /\ o \in DOMAIN betsByOutcome
    /\ Len(betsByOutcome[o]) > CONFIG.freshWalletThreshold
    /\ EventsOf(o, "newAlert") = {}

\* C5: once an outcome is in alertedOutcomes without an alert record having
\* been made for it, no newAlert and no alertUpdate is ever sent for it and no
\* record is made, whatever bets and sweeps follow.
SuppressedIsTerminal ==
  \A o \in hist.suppressed :
    /\ o \in alertedOutcomes
    /\ \A j \in 1..Len(emitted) : emitted[j].outcomeId # o
    /\ \A i \in 1..Len(alerts) : alerts[i].outcomeId # o

\* a wallet has just been recorded on a suppressed outcome, silently
BetOnSuppressed ==
  /\ op.kind = "participant" /\ op.inserted
  /\ op.assetId \in hist.suppressed
  /\ hist.inserted[op.assetId] > CONFIG.freshWalletThreshold
  /\ op.events = <<>>

\* the nine-wallet run is over
NineDone == CONFIG = NineConfig /\ hist.inserted["1"] = Len(NineWallets)

\* C6 as stated: after the nine bets there have been two alertUpdates.
NineTwoUpdates ==
  NineDone => Cardinality(EventsOf("1", "alertUpdate")) = 2

\* C6, amended: with threshold 3 and nine fresh wallets betting 50 each on one
\* outcome, nothing is sent before the 3rd bet, the 3rd bet sends the one
\* newAlert with freshWallets = 3, and each of the 4th to 9th bets sends an
\* alertUpdate with the count and amount so far: six alertUpdates, the last
\* with freshWallets = 9 and totalAmount = 450.
NineAlertThenSixUpdates ==
  CONFIG = NineConfig =>
    /\ Len(emitted) = Max0(hist.inserted["1"] - (CONFIG.freshWalletThreshold - 1))
    /\ \A j \in 1..Len(emitted) :
         /\ emitted[j].outcomeId = "1"
         /\ emitted[j].type = IF j = 1 THEN "newAlert" ELSE "alertUpdate"
         /\ emitted[j].freshWallets = j + (CONFIG.freshWalletThreshold - 1)
         /\ emitted[j].totalAmount = 50 * emitted[j].freshWallets
    /\ NineDone =>
         /\ Cardinality(EventsOf("1", "newAlert")) = 1
         /\ Cardinality(EventsOf("1", "alertUpdate")) = 6
         /\ emitted[Len(emitted)].freshWallets = 9
         /\ emitted[Len(emitted)].totalAmount = 450

\* the ninth bet has been answered by the sixth alertUpdate
NineAllSent ==
  /\ NineDone
  /\ Len(emitted) = 7
  /\ emitted[1].type = "newAlert" /\ emitted[1].freshWallets = 3
  /\ emitted[7].type = "alertUpdate" /\ emitted[7].freshWallets = 9
  /\ emitted[7].totalAmount = 450

\* two calls of isWalletFresh for one wallet, one right after the other
SecondCallStep ==
  (LookupStep /\ op'.kind = "participant" /\ op'.called
     /\ toLowerCase(op'.wallet) = toLowerCase(op.wallet))
    => (~op'.queried /\ op'.result = op.result)

\* C7 as stated: a second call for a wallet within the TTL of a first call
\* does not query the transaction count and returns the same verdict.
SecondCallNeverQueries == [][SecondCallStep]_vars

\* C7, amended: a call made less than the TTL after the wallet's last
\* successful lookup does not query the transaction count and returns the
\* verdict of that lookup.
CachedVerdictReused ==
  (LookupStep /\ op.known # NoValue /\ now - op.known[1].at < WalletCacheTtlMs)
    => (~op.queried /\ op.result = op.known[1].result)

\* a call some time after the lookup, inside the TTL, answered from the cache
CacheHitLater ==
  /\ LookupStep /\ op.known # NoValue
  /\ now > op.known[1].at /\ now - op.known[1].at < WalletCacheTtlMs
  /\ ~op.queried

\* the last call found a record of the wallet as old as the TTL or older
StaleLookup ==
  LookupStep /\ op.known # NoValue /\ now - op.known[1].at >= WalletCacheTtlMs

\* C8 as stated: a record as old as the TTL or older is not returned: the
\* count is queried again and the record overwritten with the new verdict and time.
StaleAlwaysOverwritten ==
  StaleLookup =>
    /\ op.queried
    /\ walletCache[toLowerCase(op.wallet)] = [isFresh |-> op.result, checkedAt |-> now]

\* C8, amended: a record as old as the TTL or older is not returned: the count
\* is queried again; if the lookup succeeds the record is overwritten with the
\* new verdict and time, if it fails the call returns false and the stale
\* record stays.
StaleRequeried ==
  StaleLookup =>
    /\ op.queried
    /\ walletCache[toLowerCase(op.wallet)] =
         IF op.failed
         THEN [isFresh |-> op.known[1].result, checkedAt |-> op.known[1].at]
         ELSE [isFresh |-> op.result, checkedAt |-> now]
    /\ op.failed => ~op.result

\* a record exactly one TTL old has been replaced by the opposite verdict
StaleReplaced ==
  /\ StaleLookup
  /\ now - op.known[1].at = WalletCacheTtlMs
  /\ ~op.failed
  /\ op.result # op.known[1].result

\* what a step of processTrade on one participant leaves behind
ParticipantStep ==
  op'.kind = "participant" =>
    /\ op'.part = 1 => (pc' = "trade" /\ cur' # Null /\ pending' = pending)
    /\ op'.part = 2 =>
         /\ cur' = Null
         /\ pending' = pending - 1
         /\ pc' = IF pending' > 0 THEN "trade" ELSE "pause"
    /\ op'.failed =>
         /\ ~op'.result
         /\ UNCHANGED <<betsByOutcome, walletCache, alertedOutcomes, alerts, emitted>>

\* C9: isWalletFresh never throws: when the transaction-count lookup fails it
\* returns false, nothing is recorded, and processTrade goes on to the
\* remaining participant and the following events of the chunk.
LookupFailureContained == [][ParticipantStep]_vars

\* the maker's lookup failed, the taker was recorded all the same, and the
\* chunk's next event is up
TakerAfterFailedMaker ==
  /\ op.kind = "participant" /\ op.part = 2 /\ op.inserted
  /\ stats.totalTrades = 1
  /\ DOMAIN walletCache = {toLowerCase(op.wallet)}
  /\ op.wallet = "0xb2"
  /\ pending > 0 /\ pc = "trade"

\* the entries of a bucket newer than the cutoff, as positions
LiveIn(bucket, cutoff) == {i \in 1..Len(bucket) : ~(bucket[i].timestamp <= cutoff)}

\* C10: a sweep at time now removes exactly the entries with
\* timestamp <= now - timeWindowMs, keeps the others in their order and
\* deletes the keys left empty; with the 24h window an entry of t = 0 is gone
\* after a sweep at 24h+1s and still there after a sweep at 23h59m.
SweepRemovesExactlyExpired ==
  op.kind = "sweep" =>
    LET cutoff == now - CONFIG.timeWindowMs
    IN  /\ DOMAIN betsByOutcome =
             {k \in DOMAIN op.before : LiveIn(op.before[k], cutoff) # {}}
        /\ \A k \in DOMAIN betsByOutcome :
             LET I == LiveIn(op.before[k], cutoff)
             IN  /\ Len(betsByOutcome[k]) = Cardinality(I)
                 /\ \A i \in I :
                      betsByOutcome[k][Cardinality({m \in I : m <= i})] = op.before[k][i]
        /\ now = 24 * 60 * 60 * 1000 + 1000 =>
             \A k \in DOMAIN betsByOutcome :
               \A i \in 1..Len(betsByOutcome[k]) : betsByOutcome[k][i].timestamp # 0
        /\ now = 24 * 60 * 60 * 1000 - 60 * 1000 =>
             \A k \in DOMAIN op.before :
               \A i \in 1..Len(op.before[k]) :
                 op.before[k][i].timestamp = 0
                   => /\ k \in DOMAIN betsByOutcome
                      /\ \E j \in 1..Len(betsByOutcome[k]) :
                           betsByOutcome[k][j] = op.before[k][i]

\* a sweep at 24h+1s took the t = 0 entry out of a bucket, kept the two later
\* entries of that bucket, and deleted another bucket altogether
SweepAtDayPlusSecond ==
  /\ op.kind = "sweep"
  /\ now = 24 * 60 * 60 * 1000 + 1000
  /\ \E k \in DOMAIN op.before : k \notin DOMAIN betsByOutcome
  /\ \E k \in DOMAIN betsByOutcome :
       /\ Len(op.before[k]) = 3 /\ op.before[k][1].timestamp = 0
       /\ betsByOutcome[k] = SubSeq(op.before[k], 2, 3)

\* C11: the sweep is idempotent: from any ledger the run reaches, sweeping a
\* second time right after a sweep (no bet in between, the clock where it was
\* or further on) leaves what the one later sweep alone would leave; at the
\* same instant the second sweep changes nothing.
SweepIdempotent ==
  LET once == cleanupOldBets(betsByOutcome, now, CONFIG.timeWindowMs)
  IN  /\ cleanupOldBets(once, now, CONFIG.timeWindowMs) = once
      /\ \A t \in {u \in ClockSet : u >= now} :
           cleanupOldBets(once, t, CONFIG.timeWindowMs)
             = cleanupOldBets(betsByOutcome, t, CONFIG.timeWindowMs)

\* a sweep has just taken two expired entries in a row out of a bucket and
\* left the live one behind them
SweepOfMixedLedger ==
  /\ op.kind = "sweep"
  /\ \E k \in DOMAIN op.before :
       /\ Len(op.before[k]) = 3
       /\ op.before[k][2].timestamp <= now - CONFIG.timeWindowMs
       /\ k \in DOMAIN betsByOutcome
       /\ betsByOutcome[k] = <<op.before[k][3]>>

\* C12: the cursor lastProcessedBlock is first set to the head at start-up
\* minus startBlocksBack and never decreases afterwards: a step either leaves
\* it alone (a cycle whose head is not above it, a failed cycle) or raises it
\* to the cycle's head, and it is raised only when every chunk up to that head
\* has been fetched and every event of those chunks processed.
CursorStep ==
  \/ lastProcessedBlock' = lastProcessedBlock
  \/ /\ pc = "init"
     /\ lastProcessedBlock = Uninitialised
     /\ lastProcessedBlock' = StartHead - CONFIG.startBlocksBack
  \/ /\ lastProcessedBlock # Uninitialised
     /\ lastProcessedBlock' > lastProcessedBlock
     /\ lastProcessedBlock' = latestBlock
     /\ pc = "pause"
     /\ fromBlock = latestBlock + 1
     /\ pending = 0
     /\ cur = Null

CursorNeverRewinds == [][CursorStep]_vars

\* a cycle whose head was reported below the cursor has ended, the cursor
\* having been advanced by an earlier cycle
HeadBelowCursor ==
  /\ pc = "sleep"
  /\ op.kind = "sweep"
  /\ stats.lastBlock < lastProcessedBlock
  /\ lastProcessedBlock > StartHead - CONFIG.startBlocksBack

\* C13: within a cycle the cursor is advanced to a chunk's end block once the
\* chunk's events have been processed and before the next chunk is fetched:
\* whenever a chunk is about to be fetched, the cursor is the block just below
\* the chunk's first block.
CursorAdvancesPerChunk ==
  pc = "query" => lastProcessedBlock = fromBlock - 1

\* C14: when the chain-head query or a chunk's log query throws inside a cycle,
\* the error is caught: the step leaves the cursor where it was, below the first
\* block of the chunk that failed, and the cycle goes to its sleep; the loop is
\* never left once entered (after the sleep comes the next head query), and a
\* cycle that starts scanning starts at cursor + 1.
CaughtStep ==
  op'.kind = "error" =>
    /\ pc \in {"poll", "query"}
    /\ pc' = "sleep"
    /\ lastProcessedBlock' = lastProcessedBlock
    /\ pc = "query" => lastProcessedBlock' < fromBlock
    /\ UNCHANGED <<betsByOutcome, alertedOutcomes, alerts, emitted, stats>>

LoopStep ==
  /\ pc' = "exited" => pc \in {"connect", "init", "exited"}
  /\ pc = "sleep" => pc' \in {"sleep", "poll"}
  /\ (pc = "poll" /\ pc' = "query") =>
       /\ lastProcessedBlock' = lastProcessedBlock
       /\ fromBlock' = lastProcessedBlock + 1

UpstreamErrorCaught == [][CaughtStep /\ LoopStep]_vars

\* the log query of a cycle's second chunk has just thrown: the cursor is still
\* below the first chunk
SecondChunkFailed ==
  /\ pc = "sleep"
  /\ op.kind = "error"
  /\ op.at = "query"
  /\ op.fromBlock > lastProcessedBlock + CHUNK_SIZE

\* C15: chunking does not change the result: when the cycle that scanned the
\* blocks 100..109 and then 110..119 is over, the ledger, the alerted set, the
\* alerts list, the caches, the counters and the events sent are those that
\* one query of 100..119 followed by processTrade on each of its events in
\* order leaves (swept at the cycle's end), the clock readings and upstream
\* answers being the same for each event.
SingleRangeScan ==
  processEvents(LoopEntryState, CONFIG,
                queryFilter(chain, ChainCursor + 1, ChainHead), now)

ChunkingKeepsResult ==
  (pc = "sleep" /\ op.kind = "sweep") =>
    \E R \in {SingleRangeScan} :
      /\ betsByOutcome = cleanupOldBets(R.betsByOutcome, now, CONFIG.timeWindowMs)
      /\ alertedOutcomes = R.alertedOutcomes
      /\ alerts = R.alerts
      /\ emitted = R.events
      /\ walletCache = R.walletCache
      /\ marketCache = R.marketCache
      /\ stats = [R.stats EXCEPT !.lastBlock = ChainHead]
      /\ lastProcessedBlock = ChainHead

\* the cycle is over on a chain with events in the last block of the first
\* chunk and the first block of the second, the bets of the two chunks
\* together having raised an alert
AlertAcrossChunks ==
  /\ pc = "sleep"
  /\ op.kind = "sweep"
  /\ Len(chain) = 2
  /\ chain[1].blockNumber = ChainCursor + CHUNK_SIZE
  /\ chain[2].blockNumber = ChainCursor + CHUNK_SIZE + 1
  /\ chain[1].args.maker = "0xa1"
  /\ chain[2].args.maker = "0xd4"
  /\ Len(emitted) = 1
  /\ emitted[1].type = "newAlert"

\* the fields of an alert record that an update leaves alone
FrozenFields(a) ==
  <<a.id, a.outcomeId, a.question, a.outcome, a.price, a.slug, a.image,
    a.polymarketUrl, a.firstBet, a.sampleTx, a.wallets, a.timestamp>>

\* the last step sent an alertUpdate
UpdateSent ==
  /\ op.kind = "participant"
  /\ \E i \in 1..Len(op.events) : op.events[i].type = "alertUpdate"

\* C16: an alertUpdate changes only freshWallets, totalAmount and latestBet of
\* the outcome's alert record: across every step, each record that stays in the
\* list keeps its id, outcomeId, question, outcome, price, slug, image, url,
\* firstBet, sampleTx, wallets and creation timestamp, so they are after any
\* number of updates what they were at creation; and a step that sends an
\* alertUpdate leaves every other record of the list, and the list's order,
\* as they were.
FrozenStep ==
  /\ \A i \in 1..Len(alerts) : \A j \in 1..Len(alerts') :
       alerts[i].outcomeId = alerts'[j].outcomeId
         => FrozenFields(alerts'[j]) = FrozenFields(alerts[i])
  /\ UpdateSent' =>
       /\ Len(alerts') = Len(alerts)
       /\ \A i \in 1..Len(alerts) :
            /\ alerts'[i].outcomeId = alerts[i].outcomeId
            /\ alerts[i].outcomeId # op'.assetId => alerts'[i] = alerts[i]

UpdateFreezesIdentity == [][FrozenStep]_vars

\* an alert raised for two wallets has just been updated on a later day by a
\* third wallet's bet
UpdatedOnLaterDay ==
  /\ UpdateSent
  /\ \E i \in 1..Len(alerts) :
       /\ alerts[i].outcomeId = op.assetId
       /\ alerts[i].timestamp < now
       /\ Len(alerts[i].wallets) = CONFIG.freshWalletThreshold
       /\ alerts[i].freshWallets > CONFIG.freshWalletThreshold

\* the newAlert events sent so far, in the order of creation
NewAlerts == SelectSeq(emitted, LAMBDA e : e.type = "newAlert")

\* the last step created an alert
AlertCreated ==
  /\ op.kind = "participant"
  /\ \E i \in 1..Len(op.events) : op.events[i].type = "newAlert"

\* C17: in every reachable state the alerts list holds at most MaxAlerts
\* records (the 50 of the source, scaled), and they are the most recently
\* created alerts, newest first; a step that creates an alert puts it at the
\* front, keeps the records before it in their order, and when the list is
\* full drops the last (oldest) one and no other.
NewestFirst ==
  /\ Len(alerts) = Min(MaxAlerts, Len(NewAlerts))
  /\ \A i \in 1..Len(alerts) :
       /\ alerts[i].outcomeId = NewAlerts[Len(NewAlerts) - i + 1].outcomeId
       /\ alerts[i].id = NewAlerts[Len(NewAlerts) - i + 1].id

EvictionStep ==
  AlertCreated' =>
    /\ alerts'[1].outcomeId = op'.assetId
    /\ Len(alerts') = Min(MaxAlerts, Len(alerts) + 1)
    /\ Tail(alerts') = SubSeq(alerts, 1, Len(alerts') - 1)

AlertsBoundedNewestFirst == []NewestFirst /\ [][EvictionStep]_vars

\* an alert has just been created while the list was full: the oldest record
\* is gone, the one that was newest is now second
OldestEvicted ==
  /\ AlertCreated
  /\ Len(NewAlerts) = MaxAlerts + 1
  /\ Len(alerts) = MaxAlerts
  /\ \A i \in 1..Len(alerts) : alerts[i].outcomeId # NewAlerts[1].outcomeId

\* the step records a first-time bet of a fresh wallet on an outcome that was
\* already alerted and not suppressed (an alert was created for it)
BetOnActive ==
  /\ op'.kind = "participant"
  /\ op'.inserted
  /\ op'.assetId \in alertedOutcomes \ hist.suppressed

\* what such a step does apart from the alerts list: no metadata fetch, no
\* change of the market cache or the alerted set, no alert counted or created
NoSecondAlert ==
  /\ ~op'.fetched
  /\ marketCache' = marketCache
  /\ alertedOutcomes' = alertedOutcomes
  /\ stats'.alertsTriggered = stats.alertsTriggered
  /\ \A k \in 1..Len(op'.events) : op'.events[k].type # "newAlert"

\* the record at position i is refreshed in place and sent as one alertUpdate
UpdatedInPlace(i) ==
  /\ Len(alerts') = Len(alerts)
  /\ alerts'[i].outcomeId = op'.assetId
  /\ alerts'[i].freshWallets = Len(freshBetsOf(betsByOutcome', op'.assetId))
  /\ alerts'[i].totalAmount = sumAmounts(freshBetsOf(betsByOutcome', op'.assetId))
  /\ alerts'[i].latestBet = toISOString(now')
  /\ op'.events = <<AlertEvent("alertUpdate", alerts'[i])>>

\* C18 as stated: every first-time fresh bet on an Alerted(Active) outcome
\* updates the outcome's alert in place and emits one alertUpdate, however
\* many other alerts were created in between.
EveryBetOnActiveUpdates ==
  [][BetOnActive =>
       /\ NoSecondAlert
       /\ \E i \in 1..Len(alerts) :
            alerts[i].outcomeId = op'.assetId /\ UpdatedInPlace(i)]_vars

\* C18 as amended: the update happens as long as the outcome's alert record is
\* still in the alerts list, whatever its position (other alerts created in
\* between); once later alerts have pushed the record out, the bet is recorded
\* without any event and the list is left as it is; in both cases there is no
\* metadata fetch and no second alert.
BetOnActiveStep ==
  BetOnActive =>
    /\ NoSecondAlert
    /\ \A i \in 1..Len(alerts) :
         alerts[i].outcomeId = op'.assetId => UpdatedInPlace(i)
    /\ (\A i \in 1..Len(alerts) : alerts[i].outcomeId # op'.assetId)
         => (op'.events = <<>> /\ alerts' = alerts)

BetOnListedAlertUpdates == [][BetOnActiveStep]_vars

\* an alert that another alert has since moved to the second place of the list
\* has just been updated by a further wallet's bet
UpdateBehindNewerAlert ==
  /\ UpdateSent
  /\ op.inserted
  /\ Len(alerts) = 2
  /\ alerts[2].outcomeId = op.assetId
  /\ alerts[2].freshWallets = CONFIG.freshWalletThreshold + 1

\* C19: every alert record ever created has an id distinct from the id of
\* every other, the two alerts that the maker side and the taker side of one
\* trade create included.
AlertIdsDistinct ==
  \A i \in 1..Len(NewAlerts) : \A j \in 1..Len(NewAlerts) :
    i # j => NewAlerts[i].id # NewAlerts[j].id

\* the metadata of outcome o is unavailable (nothing could be cached for it) or
\* its question is 'Unknown Market'
UnknownTo(cache, o) ==
  o \notin DOMAIN cache \/ cache[o].question = UnknownMarket

\* C20: in the minimum-bet variant, an outcome whose count reaches the
\* threshold while its metadata is unavailable or its question is 'Unknown
\* Market' is added to alertedOutcomes with no alert record, no alertsTriggered
\* increment and no newAlert; and it stays so for the rest of the run: it never
\* leaves alertedOutcomes, its metadata is never fetched again, and no record or
\* event for it ever appears.
UnknownStaysHidden ==
  /\ stats.alertsTriggered = Len(NewAlerts)
  /\ \A o \in alertedOutcomes :
       UnknownTo(marketCache, o) =>
         /\ \A i \in 1..Len(alerts) : alerts[i].outcomeId # o
         /\ \A i \in 1..Len(emitted) : emitted[i].outcomeId # o

UnknownSuppressionStep ==
  /\ alertedOutcomes \subseteq alertedOutcomes'
  /\ \A o \in alertedOutcomes' \ alertedOutcomes :
       /\ Len(freshBetsOf(betsByOutcome', o)) >= CONFIG.freshWalletThreshold
       /\ UnknownTo(marketCache', o) =>
            /\ alerts' = alerts
            /\ emitted' = emitted
            /\ stats'.alertsTriggered = stats.alertsTriggered
            /\ o \in hist'.suppressed
  /\ (op'.kind = "participant" /\ op'.assetId \in alertedOutcomes) =>
       (~op'.fetched /\ marketCache' = marketCache)

UnknownMarketSuppressed == []UnknownStaysHidden /\ [][UnknownSuppressionStep]_vars

\* outcome 9 was suppressed for its question 'Unknown Market' and has had a
\* third wallet's bet since; outcome 1 has just been suppressed at the
\* threshold because its metadata could not be fetched; nothing was ever sent
UnknownSuppressedTwice ==
  /\ op.kind = "participant" /\ op.inserted /\ op.fetched
  /\ op.assetId = "1"
  /\ alertedOutcomes = {"1", "9"}
  /\ "1" \notin DOMAIN marketCache
  /\ "9" \in DOMAIN marketCache
  /\ marketCache["9"].question = UnknownMarket
  /\ hist.inserted["9"] = CONFIG.freshWalletThreshold + 1
  /\ alerts = <<>>
  /\ emitted = <<>>
  /\ stats.alertsTriggered = 0

\* C21: in the dashboard variant without a minimum bet, when the count reaches
\* the threshold and getMarketInfo returns null (nothing is cached for the
\* outcome), the step still creates an alert and sends one newAlert, with
\* question 'Unknown Market', outcome 'Unknown', no price and no url; the
\* alert is counted and the outcome is alerted without being suppressed.
UnresolvedAlertStep ==
  \A o \in alertedOutcomes' \ alertedOutcomes :
    o \notin DOMAIN marketCache' =>
      /\ op'.kind = "participant" /\ op'.assetId = o /\ op'.fetched
      /\ Len(freshBetsOf(betsByOutcome', o)) >= CONFIG.freshWalletThreshold
      /\ alerts' # <<>>
      /\ alerts'[1].outcomeId = o
      /\ alerts'[1].question = UnknownMarket
      /\ alerts'[1].outcome = "Unknown"
      /\ alerts'[1].price = NoValue
      /\ alerts'[1].polymarketUrl = NoValue
      /\ op'.events = <<AlertEvent("newAlert", alerts'[1])>>
      /\ emitted' = Append(emitted, AlertEvent("newAlert", alerts'[1]))
      /\ stats'.alertsTriggered = stats.alertsTriggered + 1
      /\ o \notin hist'.suppressed

UnresolvedMarketStillAlerts == [][UnresolvedAlertStep]_vars

\* an alert raised while the metadata could not be fetched has just been
\* updated by a further wallet's bet: the outcome is alerted and active
UnknownAlertUpdated ==
  /\ UpdateSent
  /\ op.assetId \notin DOMAIN marketCache
  /\ \E i \in 1..Len(alerts) :
       /\ alerts[i].outcomeId = op.assetId
       /\ alerts[i].question = UnknownMarket
       /\ alerts[i].outcome = "Unknown"
       /\ alerts[i].freshWallets = CONFIG.freshWalletThreshold + 1

\* C22: in every reachable state every ledger entry belongs to a wallet other
\* than the zero address and is marked fresh; an entry is inserted or added to
\* only in a step in which isWalletFresh was called for the wallet and answered
\* fresh; and a participant that is the zero address (for which isWalletFresh
\* is not even called) or is classified non-fresh leaves the ledger, the
\* alerted set, the alerts list and the events sent unchanged.
LedgerHoldsFreshOnly ==
  \A o \in DOMAIN betsByOutcome : \A i \in 1..Len(betsByOutcome[o]) :
    betsByOutcome[o][i].wallet # ZeroAddress /\ betsByOutcome[o][i].isFresh

FreshOnlyStep ==
  op'.kind = "participant" =>
    /\ op'.wallet = ZeroAddress => ~op'.called
    /\ (op'.inserted \/ op'.accumulated \/ betsByOutcome' # betsByOutcome) =>
         (op'.wallet # ZeroAddress /\ op'.called /\ op'.result)
    /\ (op'.wallet = ZeroAddress \/ ~op'.result) =>
         UNCHANGED <<betsByOutcome, alertedOutcomes, alerts, emitted>>

OnlyFreshWalletsRecorded == []LedgerHoldsFreshOnly /\ [][FreshOnlyStep]_vars

\* the taker of a trade, a wallet with a history, has just been classified
\* non-fresh while its outcome's bucket holds bets
NonFreshTakerDropped ==
  /\ op.kind = "participant" /\ op.part = 2
  /\ op.called /\ op.queried /\ ~op.failed /\ ~op.result
  /\ op.assetId \in DOMAIN betsByOutcome

\* C23: in the minimum-bet variant a participant (other than the zero address)
\* whose amount is below CONFIG.minBetAmount is passed over before the
\* freshness check: isWalletFresh is not called and no transaction count is
\* queried, and the wallet cache, the ledger (the accumulated amount of an
\* already tracked wallet included), the metadata cache, freshWalletsDetected,
\* alertsTriggered, the alerted set, the alerts list and the events sent are
\* unchanged.
BelowMinimum(amount) == toUSDC(amount) < CONFIG.minBetAmount

BelowMinimumStep ==
  (op'.kind = "participant" /\ op'.wallet # ZeroAddress /\ BelowMinimum(op'.amount)) =>
    /\ ~op'.called /\ ~op'.queried /\ ~op'.inserted /\ ~op'.accumulated
    /\ ~op'.evaluated /\ ~op'.fetched
    /\ UNCHANGED <<walletCache, betsByOutcome, marketCache, alertedOutcomes,
                   alerts, emitted>>
    /\ stats'.freshWalletsDetected = stats.freshWalletsDetected
    /\ stats'.alertsTriggered = stats.alertsTriggered
    /\ hist'.lastLookup = hist.lastLookup

BelowMinimumSkipped == [][BelowMinimumStep]_vars

\* a wallet already tracked on the outcome has just bet below the minimum
TrackedWalletBelowMinimum ==
  /\ op.kind = "participant" /\ op.wallet # ZeroAddress
  /\ BelowMinimum(op.amount)
  /\ op.assetId \in DOMAIN betsByOutcome
  /\ alreadyTracked(betsByOutcome[op.assetId], op.wallet)

\* C24: the evaluation started by one bet insertion has completed, its metadata
\* fetch and its alert emission included, before the next participant or event
\* is processed: no participant is processed while a call of checkAndAlert is
\* still running.
EvaluationCompleteStep == op'.kind = "participant" => inflight = <<>>

EvaluationsRunToCompletion == [][EvaluationCompleteStep]_vars

\* C25: every stats snapshot published at the end of a cycle or together with
\* a newAlert reports as lastBlock the last fully processed block:
\* stats.lastBlock equals the scan cursor at the moment stats are emitted.
StatsEmitted ==
  \/ op'.kind = "sweep"
  \/ /\ op'.kind = "participant"
     /\ \E j \in 1..Len(op'.events) : op'.events[j].type = "newAlert"

StatsReportCursorStep == StatsEmitted => stats'.lastBlock = lastProcessedBlock'

StatsReportCursor == [][StatsReportCursorStep]_vars

\* C26: when getNetwork or the first getBlockNumber fails, the scan loop is
\* never entered: startBot is over and takes no further step, the cursor was
\* never initialised, no log query was issued and no trade processed.  The
\* loop is entered only with the connection up and the cursor initialised.
StartupFailed ==
  pc = "exited" =>
    /\ lastProcessedBlock = Uninitialised
    /\ latestBlock = OutOfScope /\ fromBlock = OutOfScope /\ pending = 0
    /\ stats.totalTrades = 0 /\ stats.freshWalletsDetected = 0 /\ stats.lastBlock = 0
    /\ betsByOutcome = EmptyMap /\ walletCache = EmptyMap /\ marketCache = EmptyMap
    /\ alertedOutcomes = {} /\ alerts = <<>> /\ emitted = <<>>

LoopEntered ==
  pc \notin {"connect", "init", "exited"} =>
    stats.isConnected /\ lastProcessedBlock # Uninitialised

ExitedForGood == pc # "exited"

StartupFailureStopsScan ==
  [](StartupFailed /\ LoopEntered) /\ [][ExitedForGood]_vars

\* getNetwork answered and the first getBlockNumber failed
FirstHeadReadFailed == pc = "exited" /\ stats.isConnected

\* C27: getMarketInfo is cache-first and caches only successes.  Once a call
\* for a token id has returned a MarketInfo, every later call for that token id
\* returns the same MarketInfo without asking the endpoint; a call that finds
\* nothing cached asks the endpoint; a failed call returns null, leaving the
\* cache as it was, and a successful one caches exactly what it returns.
CacheFirst ==
  \A i \in 1..Len(emitted) : \A j \in (i + 1)..Len(emitted) :
    (emitted[i].outcomeId = emitted[j].outcomeId /\ emitted[i].info # Null) =>
      (emitted[j].info = emitted[i].info /\ ~emitted[j].fetched)

NullNeverCached ==
  /\ \A t \in DOMAIN marketCache : marketCache[t] # Null
  /\ \A t \in TokenIds :
       t \in DOMAIN marketCache <=>
         \E i \in 1..Len(emitted) : emitted[i].outcomeId = t /\ emitted[i].info # Null

LookupMarketStep ==
  op'.kind = "lookup" =>
    /\ op'.fetched <=> op'.tokenId \notin DOMAIN marketCache
    /\ op'.info = Null => marketCache' = marketCache
    /\ op'.info # Null => marketCache' = MapSet(marketCache, op'.tokenId, op'.info)

MarketCacheFirst == [](CacheFirst /\ NullNeverCached) /\ [][LookupMarketStep]_vars

\* a token id whose first call failed and whose second call succeeded is
\* answered from the cache
ServedFromCacheAfterFailure ==
  /\ Len(emitted) = MaxLookups
  /\ emitted[1].info = Null
  /\ emitted[2].outcomeId = emitted[1].outcomeId /\ emitted[2].info # Null
  /\ emitted[3].outcomeId = emitted[1].outcomeId /\ ~emitted[3].fetched

\* C28: checkAndAlert is called for an outcome exactly when a bet insertion
\* appends a new entry to that outcome's bucket, once and for that outcome; a
\* bet that only adds to the amount of an existing entry calls nothing: no
\* detection read, no event, the alerts and the alerted set as they were.
bucketLen(bets, o) == IF o \in DOMAIN bets THEN Len(bets[o]) ELSE 0

EvaluationOnInsertStep ==
  op'.kind = "participant" =>
    /\ op'.invoked = IF op'.inserted THEN <<op'.assetId>> ELSE <<>>
    /\ op'.inserted <=>
         bucketLen(betsByOutcome', op'.assetId) = bucketLen(betsByOutcome, op'.assetId) + 1
    /\ ~(op'.inserted /\ op'.accumulated)
    /\ op'.accumulated =>
         /\ ~op'.evaluated /\ ~op'.fetched /\ op'.events = <<>>
         /\ UNCHANGED <<alerts, alertedOutcomes, marketCache, emitted>>

EvaluationExactlyOnInsert == [][EvaluationOnInsertStep]_vars

\* a tracked wallet has just bet more on an outcome whose alert is listed: the
\* alert was not refreshed and shows less than the ledger holds
AccumulatedBehindAlert ==
  /\ op.kind = "participant" /\ op.accumulated
  /\ op.assetId \in alertedOutcomes
  /\ \E i \in 1..Len(alerts) :
       /\ alerts[i].outcomeId = op.assetId
       /\ alerts[i].totalAmount < sumAmounts(freshBetsOf(betsByOutcome, op.assetId))

\* C29: a fresh bet from a wallet whose entry for the outcome is no longer live
\* (timestamp <= now - timeWindowMs) but has not been swept yet is recorded as
\* a new entry, appended to the bucket with the current timestamp, and
\* checkAndAlert is called as for a first-time record.
hasStaleEntry(bets, o, wallet, t) ==
  /\ o \in DOMAIN bets
  /\ \E i \in 1..Len(bets[o]) :
       /\ toLowerCase(bets[o][i].wallet) = toLowerCase(wallet)
       /\ bets[o][i].timestamp <= t - CONFIG.timeWindowMs

StaleEntryStep ==
  ( /\ op'.kind = "participant" /\ op'.called /\ op'.result
    /\ hasStaleEntry(betsByOutcome, op'.assetId, op'.wallet, now) ) =>
    /\ op'.inserted /\ op'.invoked = <<op'.assetId>>
    /\ LET bucket == betsByOutcome'[op'.assetId]
       IN  /\ Len(bucket) = Len(betsByOutcome[op'.assetId]) + 1
           /\ bucket[Len(bucket)].wallet = op'.wallet
           /\ bucket[Len(bucket)].timestamp = now

StaleEntryReplaced == [][StaleEntryStep]_vars

\* C30: a bet that only accumulates changes nothing but the amount of the
\* wallet's entry: every bucket keeps its entries in their order, each with
\* its wallet, timestamp and txHash, and only the amount of that one entry
\* grows by the bet.  The sweep looks at the timestamp alone, so the entry goes
\* at the first sweep timeWindowMs or more after the wallet's first bet,
\* whatever was added to it since.
sameButAmount(a, b) ==
  /\ a.wallet = b.wallet /\ a.timestamp = b.timestamp
  /\ a.txHash = b.txHash /\ a.isFresh = b.isFresh

AmountOnlyStep ==
  (op'.kind = "participant" /\ op'.accumulated) =>
    /\ DOMAIN betsByOutcome' = DOMAIN betsByOutcome
    /\ \A o \in DOMAIN betsByOutcome :
         /\ Len(betsByOutcome'[o]) = Len(betsByOutcome[o])
         /\ \A i \in 1..Len(betsByOutcome[o]) :
              /\ sameButAmount(betsByOutcome'[o][i], betsByOutcome[o][i])
              /\ betsByOutcome'[o][i].amount =
                   IF /\ o = op'.assetId
                      /\ toLowerCase(betsByOutcome[o][i].wallet) = toLowerCase(op'.wallet)
                   THEN betsByOutcome[o][i].amount + toUSDC(op'.amount)
                   ELSE betsByOutcome[o][i].amount

SweepByFirstBetStep ==
  op'.kind = "sweep" =>
    \A o \in DOMAIN betsByOutcome :
      LET kept == IF o \in DOMAIN betsByOutcome' THEN betsByOutcome'[o] ELSE <<>>
      IN  kept = SelectSeq(betsByOutcome[o],
                           LAMBDA bet : bet.timestamp + CONFIG.timeWindowMs > now)

AccumulationKeepsFirstBet == [][AmountOnlyStep /\ SweepByFirstBetStep]_vars

\* an entry first recorded in an earlier trade and at an earlier time, added
\* to since, is swept timeWindowMs after its first bet
AccumulatedEntryExpired ==
  /\ op.kind = "sweep"
  /\ \E o \in DOMAIN op.before : \E i \in 1..Len(op.before[o]) :
       LET bet == op.before[o][i]
           key == toLowerCase(bet.wallet)
       IN  /\ bet.timestamp + CONFIG.timeWindowMs = now
           /\ bet.txHash = 1 /\ stats.totalTrades = 2
           /\ bet.amount > 200
           /\ key \in DOMAIN hist.lastLookup
           /\ hist.lastLookup[key].at > bet.timestamp
           /\ o \notin DOMAIN betsByOutcome

\* C31: in a cycle whose head is past the cursor the queries cover the range
\* cursor+1..head exactly once: they are issued in ascending order, the first
\* starts at cursor+1, each starts where the one before ended, none spans
\* more than CHUNK_SIZE blocks or reaches beyond the head read at the start of
\* the cycle, and when the cycle moves the cursor the last one ended at the
\* head.  When the head is not past the cursor no query is issued.
QueriesInOrder ==
  \A i \in 1..Len(hist.queries) :
    LET q == hist.queries[i]
    IN  /\ q[1] <= q[2]
        /\ q[2] - q[1] + 1 <= CHUNK_SIZE
        /\ q[2] <= latestBlock
        /\ q[1] = IF i = 1 THEN lastProcessedBlock + 1 ELSE hist.queries[i - 1][2] + 1

CycleCoversStep ==
  /\ (pc = "pause" /\ pc' = "sleep") =>
       /\ hist.queries # <<>>
       /\ hist.queries[1][1] = lastProcessedBlock + 1
       /\ hist.queries[Len(hist.queries)][2] = latestBlock
       /\ lastProcessedBlock' = latestBlock
  /\ (pc = "poll" /\ pc' = "sleep" /\ op'.kind = "sweep") =>
       /\ stats'.lastBlock <= lastProcessedBlock
       /\ hist.queries = <<>>
  /\ (pc = "poll" /\ pc' = "query") => latestBlock' > lastProcessedBlock

ChunksCoverRange == []QueriesInOrder /\ [][CycleCoversStep]_vars

\* the second query of a cycle, one block long, has ended at the head
TwoChunksScanned ==
  /\ pc = "pause" /\ fromBlock > latestBlock
  /\ Len(hist.queries) = 2
  /\ hist.queries[1][2] - hist.queries[1][1] + 1 = CHUNK_SIZE
  /\ hist.queries[2] = <<latestBlock, latestBlock>>

\* C32: a cycle that has read a head past the cursor and whose upstream calls
\* all succeed ends with the cursor at that head: from the first query of the
\* cycle on, either an upstream call fails or the cursor comes to equal the
\* head.  A cycle that fails is followed by the sleep and the next cycle's
\* poll (as long as the clock of the model has an instant left to wake at).
CycleReachesHead ==
  \A h \in LiveHeads :
    (pc = "query" /\ latestBlock = h) ~> (lastProcessedBlock = h \/ op.kind = "error")

CanWake == \E t \in ClockSet : t >= now + CONFIG.pollIntervalMs

FailedCycleFollowed == (op.kind = "error" /\ CanWake) ~> pc = "poll"

RECURSIVE contributed(_, _, _)
contributed(events, wallet, outcomeId) ==
  IF events = <<>> THEN 0
  ELSE LET ps == participants(Head(events))
           mine(p) == IF p.wallet = wallet /\ p.assetId = outcomeId
                      THEN toUSDC(p.amount) ELSE 0
       IN  mine(ps[1]) + mine(ps[2]) + contributed(Tail(events), wallet, outcomeId)

EachEventCountedOnce ==
  /\ stats.totalTrades <= Len(chain)
  /\ \A o \in DOMAIN betsByOutcome :
       \A i \in 1..Len(betsByOutcome[o]) :
         betsByOutcome[o][i].amount <= contributed(chain, betsByOutcome[o][i].wallet, o)

\* C34: the count an alert of the list reports is never below the threshold,
\* and no step lowers the count of an alert that stays in the list, sweeps of
\* expired bets included.
AlertCountAtThreshold ==
  \A i \in 1..Len(alerts) : alerts[i].freshWallets >= CONFIG.freshWalletThreshold

AlertCountStep ==
  \A i \in 1..Len(alerts) : \A j \in 1..Len(alerts') :
    alerts'[j].outcomeId = alerts[i].outcomeId
      => alerts'[j].freshWallets >= alerts[i].freshWallets

AlertCountNeverShrinks == []AlertCountAtThreshold /\ [][AlertCountStep]_vars

\* C35 as stated: every alert of the list reports as many fresh wallets as its
\* wallets list has entries.
CountMatchesWalletsList ==
  \A i \in 1..Len(alerts) : alerts[i].freshWallets = Len(alerts[i].wallets)

\* C35: the wallets list of an alert is the one it was created with: it has as
\* many entries as the count its newAlert carried, whatever updates followed,
\* and it agrees with freshWallets as long as no alertUpdate has been sent for
\* the outcome.
WalletsListFromCreation ==
  \A i \in 1..Len(alerts) :
    LET o == alerts[i].outcomeId IN
    /\ \A j \in EventsOf(o, "newAlert") :
         Len(alerts[i].wallets) = emitted[j].freshWallets
    /\ EventsOf(o, "newAlert") # {}
    /\ EventsOf(o, "alertUpdate") = {}
         => alerts[i].freshWallets = Len(alerts[i].wallets)

\* an update has raised the count of an alert past its wallets list
WalletsListBehind ==
  \E i \in 1..Len(alerts) :
    /\ alerts[i].freshWallets > Len(alerts[i].wallets)
    /\ EventsOf(alerts[i].outcomeId, "alertUpdate") # {}

\* C36 as stated: after each processed participant of a trade, every alert of
\* the list has the total of the ledger entries held for its outcome.
TotalMatchesLedger ==
  op.kind = "participant" =>
    \A i \in 1..Len(alerts) :
      alerts[i].totalAmount
        = sumAmounts(freshBetsOf(betsByOutcome, alerts[i].outcomeId))

\* C36: after a participant whose bet was inserted as a new ledger entry, the
\* alert of that outcome, if the list holds one, has the total of the ledger
\* entries held for the outcome; a bet that only adds to an entry changes the
\* ledger and no alert.
TotalMatchesAfterInsertion ==
  /\ (op.kind = "participant" /\ op.inserted) =>
       \A i \in 1..Len(alerts) :
         alerts[i].outcomeId = op.assetId =>
           alerts[i].totalAmount = sumAmounts(freshBetsOf(betsByOutcome, op.assetId))
  /\ (op.kind = "participant" /\ op.accumulated) => op.events = <<>>

\* an insertion on an alerted outcome has brought the total of its alert up to
\* the ledger, past the total the alert was created with
InsertionRefreshedTotal ==
  /\ op.kind = "participant" /\ op.inserted
  /\ \E i \in 1..Len(alerts) :
       /\ alerts[i].outcomeId = op.assetId
       /\ alerts[i].totalAmount = sumAmounts(freshBetsOf(betsByOutcome, op.assetId))
       /\ alerts[i].totalAmount > sumAmounts(alerts[i].wallets)
       /\ \E j \in 1..Len(op.events) : op.events[j].type = "alertUpdate"

\* C37: every newAlert sent carries a count of fresh wallets equal to the
\* threshold, and the evaluation that sent it counted exactly that many bets.
NewAlertAtThreshold ==
  /\ \A j \in 1..Len(emitted) :
       emitted[j].type = "newAlert"
         => emitted[j].freshWallets = CONFIG.freshWalletThreshold
  /\ op.kind = "participant" =>
       \A j \in 1..Len(op.events) :
         op.events[j].type = "newAlert"
           => Len(op.counted) = CONFIG.freshWalletThreshold

\* the last bet completed a cluster: its evaluation counted as many bets as the
\* threshold and sent the newAlert of the outcome
ClusterCompletedByBet ==
  /\ op.kind = "participant" /\ op.inserted
  /\ Len(op.counted) = CONFIG.freshWalletThreshold
  /\ \E j \in 1..Len(op.events) :
       /\ op.events[j].type = "newAlert"
       /\ op.events[j].outcomeId = op.assetId
       /\ op.events[j].freshWallets = CONFIG.freshWalletThreshold
  /\ hist.inserted[op.assetId] = CONFIG.freshWalletThreshold

\* C38: checkAndAlert has called getMarketInfo at most once for each outcome
\* id, and the outcomes it has called it for are exactly the alerted ones,
\* whatever the call returned; a step fetches metadata only through that call.
OneLookupPerOutcome ==
  /\ \A o \in OutcomeIds :
       /\ hist.lookups[o] <= 1
       /\ hist.lookups[o] = 1 <=> o \in alertedOutcomes
  /\ op.kind = "participant" =>
       /\ op.looked \in {<<>>, <<op.assetId>>}
       /\ op.fetched => op.looked = <<op.assetId>>

\* a later first bet on an outcome whose market was filtered made no call
FilteredNotLookedUpAgain ==
  /\ op.kind = "participant" /\ op.inserted /\ op.looked = <<>>
  /\ op.assetId \in hist.suppressed
  /\ hist.lookups[op.assetId] = 1
  /\ hist.inserted[op.assetId] > CONFIG.freshWalletThreshold

\* C39: in the console variant each outcome has at most one alert, printed or
\* still being prepared by a call of checkAndAlert that waits for its fetch,
\* however the calls and the trades that follow interleave; a call in flight
\* is for an outcome already in alertedOutcomes.
consoleAlertsOf(o) ==
  Cardinality({j \in 1..Len(emitted) :
                 emitted[j].type = "console" /\ emitted[j].outcomeId = o})

inflightOf(o) == Cardinality({i \in 1..Len(inflight) : inflight[i].outcomeId = o})

OneConsoleAlertPerOutcome ==
  /\ \A o \in OutcomeIds : consoleAlertsOf(o) + inflightOf(o) <= 1
  /\ \A i \in 1..Len(inflight) : inflight[i].outcomeId \in alertedOutcomes

\* a further wallet was inserted for an outcome while the call that alerts on
\* it was still waiting for its fetch, and no second call was begun
InsertedWhileAlertInFlight ==
  /\ op.kind = "participant" /\ op.inserted /\ op.looked = <<>>
  /\ inflightOf(op.assetId) = 1
  /\ \E i \in 1..Len(inflight) :
       /\ inflight[i].outcomeId = op.assetId
       /\ Len(inflight[i].freshBets) < bucketLen(betsByOutcome, op.assetId)

====
